---- MODULE Spec2Model ----
(***************************************************************************)
(* A model of the FSRS scheduler of src/BE/fsrs/optimizer.py: the Card,    *)
(* ReviewLog and Scheduler value types, the scheduler's math kernel and    *)
(* the review_card state machine.                                          *)
(*                                                                         *)
(* Reals are fixed-point integers with three decimals (SCALE = 1000, so    *)
(* STABILITY_MIN = 0.001 is 1).  exp, ln and pow are computed by integer   *)
(* series; products and quotients are split so that every intermediate     *)
(* value stays inside 32 bits.  Datetimes are integer ticks, TicksPerDay   *)
(* ticks to the day (SimulationTicksPerDay in a simulation of reviews); a  *)
(* timedelta is a number of ticks and its resolution (a microsecond in the *)
(* program) is one tick.                                                   *)
(***************************************************************************)
EXTENDS Integers, Sequences, FiniteSets, TLC

\* ------------------------------------------------------------------ bounds

\* the number of review_card calls explored in a run
MaxReviews == 3

\* review times are drawn from 0 .. MaxTime (ticks)
MaxTime == 2

\* the number of review_card calls explored from a card that is not the
\* fresh card
MaxCardReviews == 1

\* ------------------------------------------------------------------ state

VARIABLES
    scheduler,  \* the Scheduler the caller reviews with
    heap,       \* the Card objects, by reference
    cur,        \* the reference the caller holds: the card it passes to review_card
    last,       \* the most recent review_card call: its arguments (review_datetime
                \* and tzinfo are those of the review time: of the argument, or of
                \* datetime.now(timezone.utc) when it is None) and its outcome
    nrev,       \* the number of review_card calls made
    limit,      \* the number of review_card calls the caller makes at most
    ser,        \* an object on its way through to_dict and from_dict
    opt,        \* an Optimizer, or a run of the optimizer script: its review logs,
                \* the call made on it and the outcome of the call
    twin        \* a second run of the same reviews that differs in the fuzz:
                \* its card, its enable_fuzzing and the exception it ended with

\* ------------------------------------------------------------ fixed point

\* one unit of the fixed-point representation: 1.0 is SCALE
SCALE == 1000

\* timedelta.days: a day is TicksPerDay ticks
TicksPerDay == 2

\* a day of the clock of a simulation: ticks of 30 seconds, so that the
\* intervals of 1, 5.5, 10 and 15 minutes of the default steps are whole ticks
SimulationTicksPerDay == 2880

\* An optional value is None or Some(v); Val reads the value of a Some
None == << >>

Some(v) == << v >>

Val(x) == x[1]

Abs(x) == IF x < 0 THEN -x ELSE x

Max(a, b) == IF b > a THEN b ELSE a

Min(a, b) == IF b < a THEN b ELSE a

\* a * b on fixed-point values, truncated toward zero
FMul(a, b) ==
    LET s  == IF (a < 0) # (b < 0) THEN -1 ELSE 1
        x  == Abs(a)
        y  == Abs(b)
    IN  s * ((x \div SCALE) * y + ((x % SCALE) * y) \div SCALE)

\* a / b on fixed-point values (b # 0), truncated toward zero
FDiv(a, b) ==
    LET s  == IF (a < 0) # (b < 0) THEN -1 ELSE 1
        x  == Abs(a)
        y  == Abs(b)
    IN  s * ((x \div y) * SCALE + ((x % y) * SCALE) \div y)

\* math.e as a fixed-point value
EULER == 2718

\* exp and ln are evaluated with one more decimal than the values they return
PREC == 10 * SCALE

\* e ** (r / PREC) for 0 <= r < PREC, in units of 1 / PREC, by the Horner form
\* of the exponential series
ExpFrac(r) ==
    LET h7 == PREC + r \div 7
        h6 == PREC + (r * h7) \div (6 * PREC)
        h5 == PREC + (r * h6) \div (5 * PREC)
        h4 == PREC + (r * h5) \div (4 * PREC)
        h3 == PREC + (r * h4) \div (3 * PREC)
        h2 == PREC + (r * h3) \div (2 * PREC)
    IN  PREC + (r * h2) \div PREC

RECURSIVE ExpInt(_, _)
\* v * e ** q for an integer q
ExpInt(v, q) ==
    IF q = 0 THEN v
    ELSE IF q > 0 THEN ExpInt(FMul(v, EULER), q - 1)
    ELSE ExpInt(FDiv(v, EULER), q + 1)

\* e ** (y / PREC) as a fixed-point value
ExpP(y) == ExpInt((ExpFrac(y % PREC) + 5) \div 10, y \div PREC)

RECURSIVE LnNorm(_, _)
\* ln (x / PREC) for x > 0, in units of 1 / PREC: x is brought into [1, 2) by
\* halving and doubling, k counts the powers of two taken out, and the rest is
\* 2 * atanh((m - 1) / (m + 1))
LnNorm(x, k) ==
    IF x >= 2 * PREC THEN LnNorm(x \div 2, k + 1)
    ELSE IF x < PREC THEN LnNorm(x * 2, k - 1)
    ELSE LET z  == ((x - PREC) * PREC) \div (x + PREC)
             z2 == (z * z) \div PREC
             z3 == (z2 * z) \div PREC
             z5 == (z3 * z2) \div PREC
             z7 == (z5 * z2) \div PREC
         IN  k * 6931 + 2 * (z + z3 \div 3 + z5 \div 5 + z7 \div 7)

\* math.e ** x
FExp(x) == ExpP(10 * x)

\* x ** p for x > 0, as exp(p * ln x)
FPow(x, p) == ExpP((LnNorm(10 * x, 0) * p) \div SCALE)

\* Python's round(): n / d (d > 0) to the nearest integer, halves to even
Round(n, d) ==
    LET q == n \div d
        r == n % d
    IN  IF 2 * r < d THEN q
        ELSE IF 2 * r > d THEN q + 1
        ELSE IF q % 2 = 0 THEN q ELSE q + 1

\* ----------------------------------------------------------- value types

STABILITY_MIN == 1

\* DEFAULT_PARAMETERS, three decimals each; P(s, i) reads index i as Python does
DEFAULT_PARAMETERS ==
    << 217, 1177, 3260, 16151, 7011, 570, 2097, 7, 1526, 112, 1018,
       1849, 113, 313, 2293, 219, 3000, 754, 333, 144, 200 >>

\* FUZZ_RANGES in tenths of a day (start, end) and thousandths per day (factor);
\* the last band has no end (math.inf)
FUZZ_RANGES ==
    << [start |-> 25,  end |-> Some(70),   factor |-> 150],
       [start |-> 70,  end |-> Some(200),  factor |-> 100],
       [start |-> 200, end |-> None, factor |-> 50] >>

\* random() returns u / RandDen for a u in RandomDraws: the least and the
\* greatest value it can return, and one in between
RandDen == 8

RandomDraws == {0, RandDen \div 2, RandDen - 1}

\* class State
Learning == 1
Review == 2
Relearning == 3
State == {Learning, Review, Relearning}

\* class Rating
Again == 1
Hard == 2
Good == 3
Easy == 4
Rating == {Again, Hard, Good, Easy}

\* Card.__init__: a Learning card constructed without a step starts at step 0
Card(card_id, state, step, stability, difficulty, due, last_review) ==
    [ card_id     |-> card_id,
      state       |-> state,
      step        |-> IF state = Learning /\ step = None THEN Some(0) ELSE step,
      stability   |-> stability,
      difficulty  |-> difficulty,
      due         |-> due,
      last_review |-> last_review ]

\* ReviewLog.__init__
ReviewLog(card_id, rating, review_datetime, review_duration) ==
    [ card_id         |-> card_id,
      rating          |-> rating,
      review_datetime |-> review_datetime,
      review_duration |-> review_duration ]

\* self.parameters[i] of a Scheduler, or of its parameters
P(self, i) == self.parameters[i + 1]

\* Scheduler.__init__, with the derived
\*   self._DECAY = -self.parameters[20]
\*   self._FACTOR = 0.9 ** (1 / self._DECAY) - 1
Scheduler(parameters, desired_retention, learning_steps, relearning_steps, maximum_interval, enable_fuzzing) ==
    LET decay == -parameters[21]
    IN  [ parameters        |-> parameters,
          desired_retention |-> desired_retention,
          learning_steps    |-> learning_steps,
          relearning_steps  |-> relearning_steps,
          maximum_interval  |-> maximum_interval,
          enable_fuzzing    |-> enable_fuzzing,
          _DECAY            |-> decay,
          _FACTOR           |-> FPow(900, FDiv(SCALE, decay)) - SCALE ]

\* the ticks to the day of the run: a simulation of _simulate_cost reviews a
\* card minutes after the review before, and its clock ticks every 30 s
Resolution == IF opt.entry = "simulation" THEN SimulationTicksPerDay ELSE TicksPerDay

\* timedelta.days: whole days, rounded down
Days(delta) == delta \div Resolution

\* timedelta(days=n)
TimedeltaDays(n) == n * Resolution

\* timedelta(minutes=n), rounded down to the tick
TimedeltaMinutes(n) == (n * Resolution) \div 1440

\* timedelta * (num / den) and timedelta / (den / num): the exact product,
\* rounded to the timedelta resolution, halves to even
TimedeltaScale(delta, num, den) == Round(delta * num, den)

\* ---------------------------------------------------------- math kernel

\* the retrievability of a card that was never reviewed taken for 1
get_card_retrievability_certain(self, card, current_datetime) ==
    IF card.last_review = None THEN SCALE
    ELSE LET elapsed_days == Max(0, Days(current_datetime - Val(card.last_review)))
         IN  FPow(SCALE + FDiv(self._FACTOR * elapsed_days, Val(card.stability)),
                  self._DECAY)

\* the retrievability computed from the elapsed time, not from its whole days
get_card_retrievability_unfloored(self, card, current_datetime) ==
    IF card.last_review = None THEN 0
    ELSE LET elapsed_days == Max(0, current_datetime - Val(card.last_review))
         IN  FPow(SCALE + FDiv(self._FACTOR * elapsed_days, Val(card.stability)),
                  self._DECAY)

\* Scheduler.get_card_retrievability
get_card_retrievability(self, card, current_datetime) ==
    IF card.last_review = None THEN 0
    ELSE LET elapsed_days == Max(0, Days(current_datetime - Val(card.last_review)))
         IN  FPow(SCALE + FDiv(self._FACTOR * elapsed_days, Val(card.stability)),
                  self._DECAY)

\* the difficulty left as computed
_clamp_difficulty_none(difficulty) == difficulty

\* Scheduler._clamp_difficulty
_clamp_difficulty(difficulty) == Min(Max(difficulty, 1 * SCALE), 10 * SCALE)

\* Scheduler._clamp_stability
_clamp_stability(stability) == Max(stability, STABILITY_MIN)

\* the initial stability read one parameter further on
_initial_stability_next_parameter(self, rating) == _clamp_stability(P(self, rating))

\* Scheduler._initial_stability
_initial_stability(self, rating) == _clamp_stability(P(self, rating - 1))

\* Scheduler._initial_difficulty
_initial_difficulty(self, rating) ==
    _clamp_difficulty(P(self, 4) - FExp(P(self, 5) * (rating - 1)) + SCALE)

\* the interval rounded and capped, without the floor of one day
_next_interval_no_floor(self, stability) ==
    LET next_interval ==
            FMul(FDiv(stability, self._FACTOR),
                 FPow(self.desired_retention, FDiv(SCALE, self._DECAY)) - SCALE)
    IN  Min(Round(next_interval, SCALE), self.maximum_interval)

\* Scheduler._next_interval: whole days in [1, maximum_interval]
_next_interval(self, stability) ==
    LET next_interval ==
            FMul(FDiv(stability, self._FACTOR),
                 FPow(self.desired_retention, FDiv(SCALE, self._DECAY)) - SCALE)
    IN  Min(Max(Round(next_interval, SCALE), 1), self.maximum_interval)

\* _short_term_stability: for Good and Easy the increase is at least 1.0
FloorIncrease(short_term_stability_increase, rating) ==
    IF rating \in {Good, Easy}
    THEN Max(short_term_stability_increase, 1 * SCALE)
    ELSE short_term_stability_increase

\* Scheduler._short_term_stability
_short_term_stability(self, stability, rating) ==
    _clamp_stability(
        FMul(stability,
             FloorIncrease(
                 FMul(FExp(FMul(P(self, 17), (rating - 3) * SCALE + P(self, 18))),
                      FPow(stability, -P(self, 19))),
                 rating)))

\* Scheduler._next_difficulty
_next_difficulty(self, difficulty, rating) ==
    LET arg_1 == _initial_difficulty(self, Easy)
        delta_difficulty == -(P(self, 6) * (rating - 3))
        _linear_damping == FDiv(FMul(10 * SCALE - difficulty, delta_difficulty), 9 * SCALE)
        arg_2 == difficulty + _linear_damping
        _mean_reversion == FMul(P(self, 7), arg_1) + FMul(SCALE - P(self, 7), arg_2)
    IN  _clamp_difficulty(_mean_reversion)

\* Scheduler._next_forget_stability
_next_forget_stability(self, difficulty, stability, retrievability) ==
    LET long_term_params ==
            FMul(FMul(FMul(P(self, 11), FPow(difficulty, -P(self, 12))),
                      FPow(stability + SCALE, P(self, 13)) - SCALE),
                 FExp(FMul(SCALE - retrievability, P(self, 14))))
        short_term_params ==
            FDiv(stability, FExp(FMul(P(self, 17), P(self, 18))))
    IN  Min(long_term_params, short_term_params)

\* Scheduler._next_recall_stability
_next_recall_stability(self, difficulty, stability, retrievability, rating) ==
    LET hard_penalty == IF rating = Hard THEN P(self, 15) ELSE SCALE
        easy_bonus   == IF rating = Easy THEN P(self, 16) ELSE SCALE
    IN  FMul(stability,
             SCALE + FMul(FMul(FMul(FMul(FMul(FExp(P(self, 8)),
                                              11 * SCALE - difficulty),
                                         FPow(stability, -P(self, 9))),
                                    FExp(FMul(SCALE - retrievability, P(self, 10))) - SCALE),
                               hard_penalty),
                          easy_bonus))

\* Scheduler._next_stability
_next_stability(self, difficulty, stability, retrievability, rating) ==
    _clamp_stability(
        IF rating = Again
        THEN _next_forget_stability(self, difficulty, stability, retrievability)
        ELSE _next_recall_stability(self, difficulty, stability, retrievability, rating))

\* _get_fuzz_range, the sum over FUZZ_RANGES: delta in thousandths of a day
FuzzDelta(interval_days) ==
    LET band(fuzz_range) ==
            (fuzz_range.factor
               * Max((IF fuzz_range.end = None THEN 10 * interval_days
                      ELSE Min(10 * interval_days, Val(fuzz_range.end)))
                     - fuzz_range.start, 0)) \div 10
    IN  SCALE + band(FUZZ_RANGES[1]) + band(FUZZ_RANGES[2]) + band(FUZZ_RANGES[3])

\* _get_fuzz_range, from the rounding on: min_ivl and max_ivl
FuzzRange(self, interval_days, delta) ==
    LET min_ivl == Max(2, Round(interval_days * SCALE - delta, SCALE))
        max_ivl == Min(Round(interval_days * SCALE + delta, SCALE), self.maximum_interval)
    IN  [min_ivl |-> Min(min_ivl, max_ivl), max_ivl |-> max_ivl]

\* _get_fuzz_range
_get_fuzz_range(self, interval_days) ==
    FuzzRange(self, interval_days, FuzzDelta(interval_days))

\* the draw without the cap of maximum_interval
FuzzedDays_uncapped(self, range, u) ==
    Round(u * (range.max_ivl - range.min_ivl + 1) + range.min_ivl * RandDen, RandDen)

\* _get_fuzzed_interval, the draw: random() = u / RandDen
FuzzedDays(self, range, u) ==
    Min(Round(u * (range.max_ivl - range.min_ivl + 1) + range.min_ivl * RandDen, RandDen),
        self.maximum_interval)

\* Scheduler._get_fuzzed_interval
_get_fuzzed_interval(self, interval, u) ==
    IF 10 * Days(interval) < 25 THEN interval
    ELSE TimedeltaDays(FuzzedDays(self, _get_fuzz_range(self, Days(interval)), u))

\* ------------------------------------------------------------ review_card

\* days_since_last_review
days_since_last_review(card, review_datetime) ==
    IF card.last_review # None
    THEN Some(Days(review_datetime - Val(card.last_review)))
    ELSE None

\* an exception raised where the update would be computed
UpdateRaises(card, exception) ==
    [ raised     |-> Some(exception),
      update     |-> "none",
      stability  |-> card.stability,
      difficulty |-> card.difficulty ]

\* the short-term update of stability and difficulty; the arithmetic on a
\* stability or a difficulty that is None raises TypeError
ShortTermUpdate(self, card, rating) ==
    IF card.stability = None \/ card.difficulty = None
    THEN UpdateRaises(card, "TypeError")
    ELSE [ raised     |-> None,
           update     |-> "short",
           stability  |-> Some(_short_term_stability(self, Val(card.stability), rating)),
           difficulty |-> Some(_next_difficulty(self, Val(card.difficulty), rating)) ]

\* the long-term update of stability and difficulty, with the retrievability
\* of the card at review_datetime
LongTermUpdate(self, card, rating, review_datetime) ==
    IF card.stability = None \/ card.difficulty = None
    THEN UpdateRaises(card, "TypeError")
    ELSE [ raised     |-> None,
           update     |-> "long",
           stability  |-> Some(_next_stability(
                                   self, Val(card.difficulty), Val(card.stability),
                                   get_card_retrievability(self, card, review_datetime),
                                   rating)),
           difficulty |-> Some(_next_difficulty(self, Val(card.difficulty), rating)) ]

\* the first review sets the stability and leaves the difficulty unset
LearningUpdate_stability_only(self, card, rating, review_datetime) ==
    [ raised     |-> None,
      update     |-> "initial",
      stability  |-> Some(_initial_stability(self, rating)),
      difficulty |-> card.difficulty ]

\* case State.Learning: update the card's stability and difficulty
LearningUpdate(self, card, rating, review_datetime) ==
    LET days == days_since_last_review(card, review_datetime)
    IN  IF card.stability = None /\ card.difficulty = None
        THEN [ raised     |-> None,
               update     |-> "initial",
               stability  |-> Some(_initial_stability(self, rating)),
               difficulty |-> Some(_initial_difficulty(self, rating)) ]
        ELSE IF days # None /\ Val(days) < 1
        THEN ShortTermUpdate(self, card, rating)
        ELSE LongTermUpdate(self, card, rating, review_datetime)

\* case State.Review: update the card's stability and difficulty
ReviewUpdate(self, card, rating, review_datetime) ==
    LET days == days_since_last_review(card, review_datetime)
    IN  IF days # None /\ Val(days) < 1
        THEN ShortTermUpdate(self, card, rating)
        ELSE LongTermUpdate(self, card, rating, review_datetime)

\* case State.Relearning: update the card's stability and difficulty.  The
\* long-term branch calls card.get_retrievability(scheduler_parameters=...,
\* current_datetime=...), which class Card does not define: AttributeError
RelearningUpdate(self, card, rating, review_datetime) ==
    LET days == days_since_last_review(card, review_datetime)
    IN  IF days # None /\ Val(days) < 1
        THEN ShortTermUpdate(self, card, rating)
        ELSE UpdateRaises(card, "AttributeError")

\* graduation that leaves the step of the ladder on the card
Graduate_step_zero(self, stability) ==
    [ state         |-> Review,
      step          |-> Some(0),
      next_interval |-> TimedeltaDays(_next_interval(self, Val(stability))) ]

\* graduation with an interval of one day whatever the stability
Graduate_one_day(self, stability) ==
    [ state         |-> Review,
      step          |-> None,
      next_interval |-> TimedeltaDays(1) ]

\* the card leaves the ladder: state Review, no step, next_interval(stability) days
Graduate(self, stability) ==
    [ state         |-> Review,
      step          |-> None,
      next_interval |-> TimedeltaDays(_next_interval(self, Val(stability))) ]

\* the card stays on the ladder, in `state`, at `step`, for `next_interval`
OnLadder(state, step, next_interval) ==
    [ state |-> state, step |-> Some(step), next_interval |-> next_interval ]

\* rating Hard on a ladder with the interval of the current step at every step
HardInterval_current_step(steps, step) == steps[step + 1]

\* rating Hard on a ladder: the step stays, the interval depends on it
HardInterval(steps, step) ==
    IF step = 0 /\ Len(steps) = 1 THEN TimedeltaScale(steps[1], 3, 2)
    ELSE IF step = 0 /\ Len(steps) >= 2 THEN TimedeltaScale(steps[1] + steps[2], 1, 2)
    ELSE steps[step + 1]

\* the Learning ladder that a card past its end restarts on every rating
LearningInterval_restarts(self, card, stability, rating) ==
    LET steps == self.learning_steps
        step  == Val(card.step)
    IN  IF Len(steps) = 0 THEN Graduate(self, stability)
        ELSE IF step >= Len(steps) THEN OnLadder(Learning, 0, steps[1])
        ELSE CASE rating = Again -> OnLadder(Learning, 0, steps[1])
               [] rating = Hard  -> OnLadder(Learning, step, HardInterval(steps, step))
               [] rating = Good  ->
                    IF step + 1 = Len(steps) THEN Graduate(self, stability)
                    ELSE OnLadder(Learning, step + 1, steps[step + 2])
               [] rating = Easy  -> Graduate(self, stability)

\* the Learning ladder on which Good graduates from every step, as Easy does
LearningInterval_good_graduates(self, card, stability, rating) ==
    LET steps == self.learning_steps
        step  == Val(card.step)
    IN  IF Len(steps) = 0 \/ (step >= Len(steps) /\ rating \in {Hard, Good, Easy})
        THEN Graduate(self, stability)
        ELSE CASE rating = Again -> OnLadder(Learning, 0, steps[1])
               [] rating = Hard  -> OnLadder(Learning, step, HardInterval(steps, step))
               [] rating = Good  -> Graduate(self, stability)
               [] rating = Easy  -> Graduate(self, stability)

\* the Learning ladder of which the last step is repeated on Good
LearningInterval_good_repeats_last(self, card, stability, rating) ==
    LET steps == self.learning_steps
        step  == Val(card.step)
    IN  IF Len(steps) = 0 \/ (step >= Len(steps) /\ rating \in {Hard, Good, Easy})
        THEN Graduate(self, stability)
        ELSE CASE rating = Again -> OnLadder(Learning, 0, steps[1])
               [] rating = Hard  -> OnLadder(Learning, step, HardInterval(steps, step))
               [] rating = Good  ->
                    IF step + 1 = Len(steps) THEN OnLadder(Learning, step, steps[step + 1])
                    ELSE OnLadder(Learning, step + 1, steps[step + 2])
               [] rating = Easy  -> Graduate(self, stability)

\* the Learning ladder on which Again keeps the step the card is at
LearningInterval_again_keeps_step(self, card, stability, rating) ==
    LET steps == self.learning_steps
        step  == Val(card.step)
    IN  IF Len(steps) = 0 \/ (step >= Len(steps) /\ rating \in {Hard, Good, Easy})
        THEN Graduate(self, stability)
        ELSE CASE rating = Again -> OnLadder(Learning, step, steps[1])
               [] rating = Hard  -> OnLadder(Learning, step, HardInterval(steps, step))
               [] rating = Good  ->
                    IF step + 1 = Len(steps) THEN Graduate(self, stability)
                    ELSE OnLadder(Learning, step + 1, steps[step + 2])
               [] rating = Easy  -> Graduate(self, stability)

\* case State.Learning: calculate the card's next interval
LearningInterval(self, card, stability, rating) ==
    LET steps == self.learning_steps
        step  == Val(card.step)
    IN  IF Len(steps) = 0 \/ (step >= Len(steps) /\ rating \in {Hard, Good, Easy})
        THEN Graduate(self, stability)
        ELSE CASE rating = Again -> OnLadder(Learning, 0, steps[1])
               [] rating = Hard  -> OnLadder(Learning, step, HardInterval(steps, step))
               [] rating = Good  ->
                    IF step + 1 = Len(steps) THEN Graduate(self, stability)
                    ELSE OnLadder(Learning, step + 1, steps[step + 2])
               [] rating = Easy  -> Graduate(self, stability)

\* rating Again enters Relearning for the last relearning step, not the first
ReviewInterval_last_step(self, card, stability, rating) ==
    IF rating = Again
    THEN IF Len(self.relearning_steps) = 0
         THEN [ state         |-> Review,
                step          |-> card.step,
                next_interval |-> TimedeltaDays(_next_interval(self, Val(stability))) ]
         ELSE OnLadder(Relearning, 0, self.relearning_steps[Len(self.relearning_steps)])
    ELSE [ state         |-> Review,
           step          |-> card.step,
           next_interval |-> TimedeltaDays(_next_interval(self, Val(stability))) ]

\* rating Again enters Relearning whether there are relearning steps or not
ReviewInterval_relearns(self, card, stability, rating) ==
    IF rating = Again
    THEN IF Len(self.relearning_steps) = 0
         THEN OnLadder(Relearning, 0, TimedeltaDays(_next_interval(self, Val(stability))))
         ELSE OnLadder(Relearning, 0, self.relearning_steps[1])
    ELSE [ state         |-> Review,
           step          |-> card.step,
           next_interval |-> TimedeltaDays(_next_interval(self, Val(stability))) ]

\* rating Again sends a Review card back to Learning
ReviewInterval_lapse_to_learning(self, card, stability, rating) ==
    IF rating = Again
    THEN IF Len(self.relearning_steps) = 0
         THEN [ state         |-> Review,
                step          |-> card.step,
                next_interval |-> TimedeltaDays(_next_interval(self, Val(stability))) ]
         ELSE OnLadder(Learning, 0, self.relearning_steps[1])
    ELSE [ state         |-> Review,
           step          |-> card.step,
           next_interval |-> TimedeltaDays(_next_interval(self, Val(stability))) ]

\* case State.Review: calculate the card's next interval
ReviewInterval(self, card, stability, rating) ==
    IF rating = Again
    THEN IF Len(self.relearning_steps) = 0
         THEN [ state         |-> Review,
                step          |-> card.step,
                next_interval |-> TimedeltaDays(_next_interval(self, Val(stability))) ]
         ELSE OnLadder(Relearning, 0, self.relearning_steps[1])
    ELSE [ state         |-> Review,
           step          |-> card.step,
           next_interval |-> TimedeltaDays(_next_interval(self, Val(stability))) ]

\* the Relearning ladder that a card past its end leaves on every rating
RelearningInterval_again_graduates(self, card, stability, rating) ==
    LET steps == self.relearning_steps
        step  == Val(card.step)
    IN  IF Len(steps) = 0 \/ step >= Len(steps)
        THEN Graduate(self, stability)
        ELSE CASE rating = Again -> OnLadder(Relearning, 0, steps[1])
               [] rating = Hard  -> OnLadder(Relearning, step, HardInterval(steps, step))
               [] rating = Good  ->
                    IF step + 1 = Len(steps) THEN Graduate(self, stability)
                    ELSE OnLadder(Relearning, step + 1, steps[step + 2])
               [] rating = Easy  -> Graduate(self, stability)

\* the Relearning ladder on which Easy climbs a step, as Good does
RelearningInterval_easy_as_good(self, card, stability, rating) ==
    LET steps == self.relearning_steps
        step  == Val(card.step)
    IN  IF Len(steps) = 0 \/ (step >= Len(steps) /\ rating \in {Hard, Good, Easy})
        THEN Graduate(self, stability)
        ELSE CASE rating = Again -> OnLadder(Relearning, 0, steps[1])
               [] rating = Hard  -> OnLadder(Relearning, step, HardInterval(steps, step))
               [] rating \in {Good, Easy} ->
                    IF step + 1 = Len(steps) THEN Graduate(self, stability)
                    ELSE OnLadder(Relearning, step + 1, steps[step + 2])

\* case State.Relearning: calculate the card's next interval
RelearningInterval(self, card, stability, rating) ==
    LET steps == self.relearning_steps
        step  == Val(card.step)
    IN  IF Len(steps) = 0 \/ (step >= Len(steps) /\ rating \in {Hard, Good, Easy})
        THEN Graduate(self, stability)
        ELSE CASE rating = Again -> OnLadder(Relearning, 0, steps[1])
               [] rating = Hard  -> OnLadder(Relearning, step, HardInterval(steps, step))
               [] rating = Good  ->
                    IF step + 1 = Len(steps) THEN Graduate(self, stability)
                    ELSE OnLadder(Relearning, step + 1, steps[step + 2])
               [] rating = Easy  -> Graduate(self, stability)

\* review_card, the match on card.state, first half: the update of the
\* stability and difficulty of `card`, the working copy
Update(self, card, rating, review_datetime) ==
    CASE card.state = Learning   -> LearningUpdate(self, card, rating, review_datetime)
      [] card.state = Review     -> ReviewUpdate(self, card, rating, review_datetime)
      [] card.state = Relearning -> RelearningUpdate(self, card, rating, review_datetime)

\* review_card, the match on card.state, second half: the next interval
Interval(self, card, stability, rating) ==
    CASE card.state = Learning   -> LearningInterval(self, card, stability, rating)
      [] card.state = Review     -> ReviewInterval(self, card, stability, rating)
      [] card.state = Relearning -> RelearningInterval(self, card, stability, rating)

\* the card as the match leaves it, with the interval
Matched(upd, ivl) ==
    [ raised |-> None, update |-> upd.update,
      state |-> ivl.state, step |-> ivl.step,
      stability |-> upd.stability, difficulty |-> upd.difficulty,
      next_interval |-> ivl.next_interval ]

\* the match raised: nothing was assigned
MatchRaised(card, upd) ==
    [ raised |-> upd.raised, update |-> upd.update,
      state |-> card.state, step |-> card.step,
      stability |-> card.stability, difficulty |-> card.difficulty,
      next_interval |-> 0 ]

AfterUpdate(self, card, rating, upd) ==
    IF upd.raised # None THEN MatchRaised(card, upd)
    ELSE Matched(upd, Interval(self, card, upd.stability, rating))

\* review_card, the whole match on card.state
Scheduled(self, card, rating, review_datetime) ==
    AfterUpdate(self, card, rating, Update(self, card, rating, review_datetime))

\* random() is called: the card was scheduled in Review, fuzzing is enabled
\* and the interval is not less than 2.5 days
CallsRandom(self, sched) ==
    /\ sched.raised = None
    /\ self.enable_fuzzing
    /\ sched.state = Review
    /\ 10 * Days(sched.next_interval) >= 25

\* the fuzz applied to every Review interval, enable_fuzzing or not
Fuzzed_always(self, sched, u) ==
    IF sched.state = Review
    THEN _get_fuzzed_interval(self, sched.next_interval, u)
    ELSE sched.next_interval

\* the fuzz applied in every state when fuzzing is enabled
Fuzzed_any_state(self, sched, u) ==
    IF self.enable_fuzzing
    THEN _get_fuzzed_interval(self, sched.next_interval, u)
    ELSE sched.next_interval

\* if self.enable_fuzzing and card.state == State.Review: fuzz the interval
Fuzzed(self, sched, u) ==
    IF self.enable_fuzzing /\ sched.state = Review
    THEN _get_fuzzed_interval(self, sched.next_interval, u)
    ELSE sched.next_interval

\* the end of review_card with the due date counted from the old due date
Finished_due_stale(card, sched, next_interval, rating, review_datetime, review_duration) ==
    [ card |-> [ card_id     |-> card.card_id,
                 state       |-> sched.state,
                 step        |-> sched.step,
                 stability   |-> sched.stability,
                 difficulty  |-> sched.difficulty,
                 due         |-> card.due + next_interval,
                 last_review |-> Some(review_datetime) ],
      log  |-> ReviewLog(card.card_id, rating, review_datetime, review_duration),
      next_interval |-> next_interval ]

\* the end of review_card with last_review taken from the date the card was due
Finished_reviewed_when_due(card, sched, next_interval, rating, review_datetime, review_duration) ==
    [ card |-> [ card_id     |-> card.card_id,
                 state       |-> sched.state,
                 step        |-> sched.step,
                 stability   |-> sched.stability,
                 difficulty  |-> sched.difficulty,
                 due         |-> review_datetime + next_interval,
                 last_review |-> Some(card.due) ],
      log  |-> ReviewLog(card.card_id, rating, review_datetime, review_duration),
      next_interval |-> next_interval ]

\* review_card, the end: due and last_review are set and the log is made
Finished(card, sched, next_interval, rating, review_datetime, review_duration) ==
    [ card |-> [ card_id     |-> card.card_id,
                 state       |-> sched.state,
                 step        |-> sched.step,
                 stability   |-> sched.stability,
                 difficulty  |-> sched.difficulty,
                 due         |-> review_datetime + next_interval,
                 last_review |-> Some(review_datetime) ],
      log  |-> ReviewLog(card.card_id, rating, review_datetime, review_duration),
      next_interval |-> next_interval ]

\* review_card from the fuzz to the return: the updated card and the log
Reviewed(self, card, sched, rating, review_datetime, review_duration, u) ==
    Finished(card, sched, Fuzzed(self, sched, u), rating, review_datetime, review_duration)

\* ----------------------------------------------------- to_dict, from_dict

\* a value in a dictionary that is a list, and the tuple made of a list
ListOf(items) == [list |-> items]

TupleOf(list) == list.list

\* datetime.isoformat() and datetime.fromisoformat(): the string of a datetime
isoformat(datetime) == [iso |-> datetime]

fromisoformat(date_string) == date_string.iso

\* the truth value of an optional number: None and 0 are false
Truthy(x) == x # None /\ Val(x) # 0

\* Card.to_dict; a datetime is true, whatever its time
Card_to_dict(self) ==
    [ card_id     |-> self.card_id,
      state       |-> self.state,
      step        |-> self.step,
      stability   |-> self.stability,
      difficulty  |-> self.difficulty,
      due         |-> isoformat(self.due),
      last_review |-> IF self.last_review # None
                      THEN Some(isoformat(Val(self.last_review))) ELSE None ]

\* from_dict with the test "is not None" for stability and difficulty
Card_from_dict_not_none(source_dict) ==
    Card(source_dict.card_id, source_dict.state, source_dict.step,
         source_dict.stability, source_dict.difficulty,
         fromisoformat(source_dict.due),
         IF source_dict.last_review # None
         THEN Some(fromisoformat(Val(source_dict.last_review))) ELSE None)

\* Card.from_dict; an isoformat string is never empty, so it is true
Card_from_dict(source_dict) ==
    Card(source_dict.card_id, source_dict.state, source_dict.step,
         IF Truthy(source_dict.stability) THEN source_dict.stability ELSE None,
         IF Truthy(source_dict.difficulty) THEN source_dict.difficulty ELSE None,
         fromisoformat(source_dict.due),
         IF source_dict.last_review # None
         THEN Some(fromisoformat(Val(source_dict.last_review))) ELSE None)

\* timedelta(seconds=s, microseconds=us), as the scheduler's steps are when
\* they are serialised: to_dict reads them by the second
Timedelta(seconds, microseconds) == [seconds |-> seconds, microseconds |-> microseconds]

\* int(timedelta.total_seconds()) of a duration that is not negative
IntTotalSeconds(timedelta) == timedelta.seconds + timedelta.microseconds \div 1000000

StepsToSeconds(steps) == [i \in 1 .. Len(steps) |-> IntTotalSeconds(steps[i])]

\* timedelta(minutes=step) for each step of the dictionary
SecondsToSteps_minutes(seconds) == [i \in 1 .. Len(seconds) |-> Timedelta(60 * seconds[i], 0)]

\* timedelta(seconds=step) for each step of the dictionary
SecondsToSteps(seconds) == [i \in 1 .. Len(seconds) |-> Timedelta(seconds[i], 0)]

\* Scheduler.to_dict
Scheduler_to_dict(self) ==
    [ parameters        |-> ListOf(self.parameters),
      desired_retention |-> self.desired_retention,
      learning_steps    |-> ListOf(StepsToSeconds(self.learning_steps)),
      relearning_steps  |-> ListOf(StepsToSeconds(self.relearning_steps)),
      maximum_interval  |-> self.maximum_interval,
      enable_fuzzing    |-> self.enable_fuzzing ]

\* Scheduler.from_dict
Scheduler_from_dict(source_dict) ==
    Scheduler(TupleOf(source_dict.parameters),
              source_dict.desired_retention,
              SecondsToSteps(TupleOf(source_dict.learning_steps)),
              SecondsToSteps(TupleOf(source_dict.relearning_steps)),
              source_dict.maximum_interval,
              source_dict.enable_fuzzing)

\* ------------------------------------------------------------- Optimizer

\* the reviews of a mini-batch, and the reviews of a card that are replayed
mini_batch_size == 512

max_seq_len == 64

num_epochs == 5

\* Scheduler(): learning steps of 1 and 10 minutes and a relearning step of
\* 10 minutes, each less than a tick; fuzzing enabled
DefaultScheduler == Scheduler(DEFAULT_PARAMETERS, 900, << 0, 0 >>, << 0 >>, 36500, TRUE)

\* datum = [[review_datetime, rating, review_duration], recall]
Datum(review_log) ==
    [ review_datetime |-> review_log.review_datetime,
      rating          |-> review_log.rating,
      review_duration |-> review_log.review_duration,
      recall          |-> IF review_log.rating = Again THEN 0 ELSE 1 ]

\* revlogs_train[card_id].append(datum) without the sort that follows it
AppendSorted_unsorted(list, datum) == Append(list, datum)

\* revlogs_train[card_id].append(datum) followed by sorted(..., key=review_datetime)
\* on a list that was sorted: the datum goes behind the items that are not later
RECURSIVE AppendSorted(_, _)
AppendSorted(list, datum) ==
    IF list = << >> \/ list[Len(list)].review_datetime <= datum.review_datetime
    THEN Append(list, datum)
    ELSE Append(AppendSorted(SubSeq(list, 1, Len(list) - 1), datum), list[Len(list)])

\* revlogs_train after the loop body has run for one review log
WithRevlog(revlogs_train, card_id, datum) ==
    [ c \in DOMAIN revlogs_train \cup {card_id} |->
        IF c # card_id THEN revlogs_train[c]
        ELSE AppendSorted(IF c \in DOMAIN revlogs_train THEN revlogs_train[c] ELSE << >>,
                          datum) ]

RECURSIVE FormatFrom(_, _, _)
FormatFrom(review_logs, i, revlogs_train) ==
    IF i > Len(review_logs) THEN revlogs_train
    ELSE FormatFrom(review_logs, i + 1,
                    WithRevlog(revlogs_train, review_logs[i].card_id, Datum(review_logs[i])))

\* Optimizer.__init__, _format_revlogs: the history of each card, by card_id
_format_revlogs(review_logs) == FormatFrom(review_logs, 1, << >>)

\* Optimizer.__init__: self.review_logs is a private copy that no method
\* assigns, and self._revlogs_train is made of it
Optimizer(review_logs) == [ review_logs |-> review_logs ]

_revlogs_train(self) == _format_revlogs(self.review_logs)

\* list(revlogs_train.keys()) of the dictionary sorted by card_id
RECURSIVE SortedKeys(_)
SortedKeys(keys) ==
    IF keys = {} THEN << >>
    ELSE LET least == CHOOSE k \in keys : \A other \in keys : k <= other
         IN  << least >> \o SortedKeys(keys \ {least})

\* self._revlogs_train[card_id][:max_seq_len]
Truncated(history) == SubSeq(history, 1, Min(Len(history), max_seq_len))

\* every review of a card after its first counts
Eligible_after_first(card, review_datetime) == card.last_review # None

\* only non-same-day reviews count
Eligible(card, review_datetime) ==
    /\ card.last_review # None
    /\ Days(review_datetime - Val(card.last_review)) > 0

\* the outcome of a replay: the reviews counted and the review_card calls made
\* when it ended, and the exception that ended it, if one did
Replayed(raised, num_reviews, calls) ==
    [ raised |-> raised, num_reviews |-> num_reviews, calls |-> calls ]

\* _num_reviews, the loop over a card's history from review i on.  The value
\* random() returns in review_card reaches card.due only, which the loop
\* does not read
RECURSIVE ReplayHistory(_, _, _, _, _)
ReplayReview(self, history, i, card, sofar, sched) ==
    IF sched.raised # None
    THEN Replayed(sched.raised, sofar.num_reviews, sofar.calls + 1)
    ELSE ReplayHistory(self, history, i + 1,
                       Reviewed(self, card, sched, history[i].rating,
                                history[i].review_datetime, None, 0).card,
                       Replayed(None, sofar.num_reviews, sofar.calls + 1))

ReplayHistory(self, history, i, card, sofar) ==
    IF i > Len(history) THEN sofar
    ELSE ReplayReview(self, history, i, card,
                      Replayed(None,
                               sofar.num_reviews
                                   + (IF Eligible(card, history[i].review_datetime)
                                      THEN 1 ELSE 0),
                               sofar.calls),
                      Scheduled(self, card, history[i].rating, history[i].review_datetime))

\* the history of one card, replayed on Card(card_id=card_id, due=review_datetime)
ReplayCard(self, card_id, history, sofar) ==
    IF history = << >> THEN sofar
    ELSE ReplayHistory(self, history, 1,
                       Card(card_id, Learning, None, None, None,
                            history[1].review_datetime, None),
                       sofar)

\* _num_reviews, the loop over the cards from the k-th card_id on
RECURSIVE ReplayCards(_, _, _, _, _)
ReplayCards(self, revlogs_train, card_ids, k, sofar) ==
    IF k > Len(card_ids) \/ sofar.raised # None THEN sofar
    ELSE ReplayCards(self, revlogs_train, card_ids, k + 1,
                     ReplayCard(self, card_ids[k], Truncated(revlogs_train[card_ids[k]]),
                                sofar))

\* compute_optimal_parameters, _num_reviews
_num_reviews(self) ==
    ReplayCards(DefaultScheduler, _revlogs_train(self),
                SortedKeys(DOMAIN _revlogs_train(self)), 1, Replayed(None, 0, 0))

\* math.ceil(a / b) of positive integers
Ceil(a, b) == (a + b - 1) \div b

\* the outcome of compute_optimal_parameters: the list returned or the
\* exception raised, the calls of adam_optimizer.step() made and the
\* review_card calls of _num_reviews.  The parameters that training leaves
\* are the values the gradient steps reach; of the training the outcome
\* keeps that it ran, and its steps: one a mini-batch and epoch
Computed(raised, returned, optimizer_steps, trained, replay) ==
    [ raised          |-> raised,
      result          |-> returned,
      optimizer_steps |-> optimizer_steps,
      trained         |-> trained,
      num_reviews     |-> replay.num_reviews,
      replayed        |-> replay.calls ]

ParametersFor(replay) ==
    IF replay.raised # None THEN Computed(replay.raised, None, 0, FALSE, replay)
    ELSE IF replay.num_reviews < mini_batch_size
    THEN Computed(None, Some(DEFAULT_PARAMETERS), 0, FALSE, replay)
    ELSE Computed(None, None, Ceil(replay.num_reviews, mini_batch_size) * num_epochs,
                  TRUE, replay)

\* Optimizer.compute_optimal_parameters
compute_optimal_parameters(self) == ParametersFor(_num_reviews(self))

\* ------------------------------------------------------------ training

\* lower_bounds and upper_bounds of the parameters (weight clipping)
INIT_S_MAX == 100 * SCALE

lower_bounds ==
    << STABILITY_MIN, STABILITY_MIN, STABILITY_MIN, STABILITY_MIN, 1000, 100, 100,
       0, 0, 0, 10, 100, 10, 10, 10, 0, 1000, 0, 0, 0, 100 >>

upper_bounds ==
    << INIT_S_MAX, INIT_S_MAX, INIT_S_MAX, INIT_S_MAX, 10000, 4000, 4000,
       750, 4500, 800, 3500, 5000, 250, 900, 4000, 1000, 6000, 2000, 2000, 800, 800 >>

\* learning_rate = 4e-2
learning_rate == 40

\* adam_optimizer.step(): in its first steps Adam moves each parameter by the
\* learning rate, up or down as the gradient has it; of the gradient the
\* model keeps the direction, and moves every parameter the same way
Stepped(params, direction) ==
    [ i \in 1 .. Len(params) |-> params[i] + direction * learning_rate ]

\* the parameters left as the step made them
Clamped_none(params) == params

\* params.clamp_(min=lower_bounds, max=upper_bounds)
Clamped(params) ==
    [ i \in 1 .. Len(params) |-> Min(Max(params[i], lower_bounds[i]), upper_bounds[i]) ]

\* a loss is better than the best so far when it is equal to it, too
Better_or_equal(loss, best_loss) == best_loss = None \/ loss <= Val(best_loss)

\* epoch_batch_loss < best_loss, where best_loss is math.inf at first
Better(loss, best_loss) == best_loss = None \/ loss < Val(best_loss)

\* Scheduler(parameters=params): the other arguments have their defaults
SchedulerOf(params) == Scheduler(params, 900, << 0, 0 >>, << 0 >>, 36500, TRUE)

\* the card_ids of the training data
TrainingCards == 1 .. 9

\* the review of a card every day from day 0 on, i the number of the review
Daily(card_id, rating, i) == Datum(ReviewLog(card_id, rating, TimedeltaDays(i - 1), None))

\* the ratings of a card that is rated Good, Easy and Hard in turn
Turns == << Good, Easy, Hard >>

\* the training data of an Optimizer made with the review logs of nine
\* cards, by card_id and in time order as _format_revlogs leaves them:
\*   card 1 is reviewed twice on day 0 and then daily, 66 times in all;
\*   card 2 daily, and lapses on day 3, where it is reviewed once more;
\*   card 3 daily with ratings in turn; cards 4 to 8 daily, rated Good;
\*   card 9 daily, rated Good, m times
TrainingHistory(card_id, m) ==
    CASE card_id = 1 ->
           [ i \in 1 .. 66 |->
               IF i = 1 THEN Daily(1, Good, 1)
               ELSE IF i = 2 THEN Datum(ReviewLog(1, Good, 1, None))
               ELSE Daily(1, Good, i - 1) ]
      [] card_id = 2 ->
           [ i \in 1 .. 64 |->
               IF i < 4 THEN Daily(2, Good, i)
               ELSE IF i = 4 THEN Daily(2, Again, 4)
               ELSE IF i = 5 THEN Datum(ReviewLog(2, Good, TimedeltaDays(3) + 1, None))
               ELSE Daily(2, Good, i - 1) ]
      [] card_id = 3 -> [ i \in 1 .. 64 |-> Daily(3, Turns[(i % 3) + 1], i) ]
      [] card_id \in 4 .. 8 -> [ i \in 1 .. 64 |-> Daily(card_id, Good, i) ]
      [] card_id = 9 -> [ i \in 1 .. m |-> Daily(9, Good, i) ]

TrainingData(m) == [ card_id \in TrainingCards |-> TrainingHistory(card_id, m) ]

\* the reviews of card 9: with 12 of them 511 reviews of the data count for
\* the optimisation, with 13 of them 512, with 14 of them 513
LastHistories == {12, 13, 14}

\* rng.shuffle(card_ids): the order of the cards is one of these
Reversed(list) == [ i \in 1 .. Len(list) |-> list[Len(list) + 1 - i] ]

Shuffles(card_ids) == { card_ids, Reversed(card_ids) }

\* the values _compute_batch_loss returns: a lower and a higher loss
Losses == {1, 2}

\* the directions of the gradient
Directions == {-1, 1}

\* --------------------------------------------------- optimal retention

\* compute_optimal_retention asks for MinRetentionLogs review logs
MinRetentionLogs == 512

\* DESIRED_RETENTIONS = [0.7, 0.75, 0.8, 0.85, 0.9, 0.95]
DESIRED_RETENTIONS == << 700, 750, 800, 850, 900, 950 >>

\* _validate_review_logs without the loop over the durations
_validate_review_logs_length_only(self) ==
    IF Len(self.review_logs) < MinRetentionLogs THEN Some("ValueError") ELSE None

\* compute_optimal_retention, _validate_review_logs: the exception it raises
_validate_review_logs(self) ==
    IF Len(self.review_logs) < MinRetentionLogs THEN Some("ValueError")
    ELSE IF \E i \in 1 .. Len(self.review_logs) :
                self.review_logs[i].review_duration = None
    THEN Some("ValueError")
    ELSE None

\* the first row of a card in the data frame sorted by card_id and
\* review_datetime: of the reviews of the card at its earliest time the one
\* that comes first in review_logs (the sort keeps the order of equal rows)
EarliestOf(rows) ==
    CHOOSE t \in { rows[i].review_datetime : i \in 1 .. Len(rows) } :
        \A i \in 1 .. Len(rows) : t <= rows[i].review_datetime

FirstAt(rows, t) == Head(SelectSeq(rows, LAMBDA row : row.review_datetime = t))

FirstReview(review_logs, card_id) ==
    FirstAt(SelectSeq(review_logs, LAMBDA row : row.card_id = card_id),
            EarliestOf(SelectSeq(review_logs, LAMBDA row : row.card_id = card_id)))

\* first_reviews_df: the rows whose card_id is not a duplicate, by card_id
first_reviews_df(review_logs) ==
    [ c \in { review_logs[i].card_id : i \in 1 .. Len(review_logs) } |->
        FirstReview(review_logs, c) ]

\* len(first_<rating>_reviews_df)
NumFirst(first_reviews, rating) ==
    Cardinality({ c \in DOMAIN first_reviews : first_reviews[c].rating = rating })

\* len(<rating>_reviews_df): the rows of non_first_reviews_df with the rating
\* are the rows of the data frame with it less the first rows with it
NumNonFirst(review_logs, first_reviews, rating) ==
    Len(SelectSeq(review_logs, LAMBDA row : row.rating = rating))
        - NumFirst(first_reviews, rating)

\* a / b of two counts; ZeroDivisionError when b is 0
Quotient(a, b) == (a * SCALE) \div b

\* probs_and_costs_dict, the probabilities.  The average durations are means
\* of non-empty lists of durations that are not None, or 0, and go to the
\* simulation
ProbsDict(num_first, num_first_review, num, num_recall) ==
    [ prob_first_again |-> Quotient(num_first[Again], num_first_review),
      prob_first_hard  |-> Quotient(num_first[Hard], num_first_review),
      prob_first_good  |-> Quotient(num_first[Good], num_first_review),
      prob_first_easy  |-> Quotient(num_first[Easy], num_first_review),
      prob_hard        |-> Quotient(num[Hard], num_recall),
      prob_good        |-> Quotient(num[Good], num_recall),
      prob_easy        |-> Quotient(num[Easy], num_recall) ]

ProbsOf(num_first, num_first_review, num, num_recall) ==
    IF num_first_review = 0 \/ num_recall = 0
    THEN [ raised |-> Some("ZeroDivisionError"), dict |-> None ]
    ELSE [ raised |-> None,
           dict   |-> Some(ProbsDict(num_first, num_first_review, num, num_recall)) ]

ProbsFrom(num_first, num) ==
    ProbsOf(num_first, num_first[Again] + num_first[Hard] + num_first[Good] + num_first[Easy],
            num, num[Hard] + num[Good] + num[Easy])

ProbsOfFirst(review_logs, first_reviews) ==
    ProbsFrom([ r \in Rating |-> NumFirst(first_reviews, r) ],
              [ r \in Rating |-> NumNonFirst(review_logs, first_reviews, r) ])

\* Optimizer._compute_probs_and_costs
_compute_probs_and_costs(self) ==
    ProbsOfFirst(self.review_logs, first_reviews_df(self.review_logs))

\* min(simulation_costs) and simulation_costs.index(...): the first index of
\* the least cost
MinCost(simulation_costs) ==
    CHOOSE x \in { simulation_costs[i] : i \in 1 .. Len(simulation_costs) } :
        \A i \in 1 .. Len(simulation_costs) : x <= simulation_costs[i]

IndexOf(list, x) ==
    CHOOSE i \in 1 .. Len(list) : list[i] = x /\ \A j \in 1 .. (i - 1) : list[j] # x

\* the outcome of compute_optimal_retention: the retention returned or the
\* exception raised, whether _compute_probs_and_costs was called and how
\* many times _simulate_cost was
Retained(raised, returned, estimated, probs, simulations) ==
    [ raised |-> raised, result |-> returned, estimated |-> estimated,
      probs |-> probs, simulations |-> simulations ]

RetentionAfterProbs(probs, simulation_costs) ==
    IF probs.raised # None THEN Retained(probs.raised, None, TRUE, None, 0)
    ELSE Retained(None,
                  Some(DESIRED_RETENTIONS[IndexOf(simulation_costs, MinCost(simulation_costs))]),
                  TRUE, probs.dict, Len(DESIRED_RETENTIONS))

\* _validate_review_logs of compute_optimal_retention made the given check
RetentionAfterValidation(self, invalid, simulation_costs) ==
    IF invalid # None THEN Retained(invalid, None, FALSE, None, 0)
    ELSE RetentionAfterProbs(_compute_probs_and_costs(self), simulation_costs)

\* Optimizer.compute_optimal_retention, where the six calls of _simulate_cost
\* return simulation_costs
compute_optimal_retention(self, simulation_costs) ==
    RetentionAfterValidation(self, _validate_review_logs(self), simulation_costs)

vars == << scheduler, heap, cur, last, nrev, limit, ser, opt, twin >>

\* the state of the reviews of a card
reviewVars == << scheduler, heap, cur, last, nrev, limit >>

Refs == {1, 2}

\* the datetimes the caller and the clock can supply
Times == 0 .. MaxTime

\* tzinfo of a datetime argument: timezone.utc, None (naive), or another zone
TzInfos == {"utc", "none", "other"}

\* a datetime that is not UTC is rejected whatever its time: one time stands for all
Datetimes == [t : Times, tzinfo : {"utc"}] \cup [t : {0}, tzinfo : TzInfos \ {"utc"}]

Durations == {Some(1500)}

\* learning_steps, in ticks: none, one, two ascending of which the second
\* is three days, two descending
LearningStepsChoices == { << >>, << 1 >>, << 2, 6 >>, << 3, 1 >> }

RelearningStepsChoices == { << >>, << 1 >>, << 1, 2 >> }

\* maximum_interval and enable_fuzzing
IntervalChoices == { << 36500, FALSE >>, << 36500, TRUE >>, << 3, TRUE >> }

\* parameters of which the initial stability of Again is 0 and the initial
\* difficulty is over 10 for Again and under 1 for Easy
ExtremeParameters == [DEFAULT_PARAMETERS EXCEPT ![1] = 0, ![5] = 10500, ![6] = 1000]

Schedulers ==
    { Scheduler(DEFAULT_PARAMETERS, 900, ls, rs, iv[1], iv[2]) :
        ls \in LearningStepsChoices, rs \in RelearningStepsChoices,
        iv \in IntervalChoices }
    \cup { Scheduler(ExtremeParameters, 900, << 1 >>, << 1 >>, 36500, FALSE) }

\* copy(card): a new Card object with the same fields.  Of the two references
\* one is the caller's; the other is free, the caller having dropped the card
\* it passed to the call before
copy_alias(ref) == ref

copy(ref) == CHOOSE r \in Refs : r # ref

\* nothing is being serialised
NoSer == [ kind |-> "none", phase |-> "none", obj |-> None, dict |-> None, back |-> None ]

\* there is no second run
NoTwin == [ card |-> None, enable_fuzzing |-> FALSE, raised |-> None ]

\* there is no Optimizer and no run of the script
NoOpt == [ entry |-> "none" ]

NoCall(card) ==
    [ called          |-> FALSE,
      raised          |-> None,
      arg             |-> 1,
      before          |-> card,
      rating          |-> Again,
      review_datetime |-> None,
      tzinfo          |-> "utc",
      ret             |-> None,
      log             |-> None,
      update          |-> "none",
      next_interval   |-> None,
      base_interval   |-> None,
      goods           |-> 0 ]

\* a Scheduler with one of the configurations, and Card(card_id=1) created at time 0
Init ==
    /\ scheduler \in Schedulers
    /\ heap = [r \in Refs |-> Card(1, Learning, None, None, None, 0, None)]
    /\ cur = 1
    /\ last = NoCall(heap[1])
    /\ nrev = 0
    /\ limit = MaxReviews
    /\ ser = NoSer
    /\ opt = NoOpt
    /\ twin = NoTwin

\* the check without its second half: only a naive datetime is rejected
NotUtc_naive_only(review_datetime) ==
    review_datetime # None /\ Val(review_datetime).tzinfo = "none"

\* Card(...): the cards the constructor makes, in each state, on and past
\* the ladders, never reviewed or with a stability and a difficulty, with and
\* without a last review
MemoryChoices == { << None, None >>, << Some(STABILITY_MIN), Some(1 * SCALE) >>,
                   << Some(3260), Some(4885) >>, << Some(100 * SCALE), Some(10 * SCALE) >> }

ConstructedCards ==
    { Card(1, st[1], st[2], m[1], m[2], 0, last_review) :
        st \in ({Learning} \X {None, Some(1), Some(2)})
                   \cup ({Relearning} \X {Some(0), Some(1), Some(2)})
                   \cup {<< Review, None >>},
        m \in MemoryChoices,
        last_review \in {None, Some(0)} }

\* a Scheduler with one of the configurations and a card from the constructor;
\* the card of Init is reviewed as in Init, another card MaxCardReviews times
InitCards ==
    /\ scheduler \in Schedulers
    /\ \E card \in ConstructedCards :
         /\ heap = [r \in Refs |-> card]
         /\ last = NoCall(card)
         /\ limit = IF card = Card(1, Learning, None, None, None, 0, None)
                    THEN MaxReviews ELSE MaxCardReviews
    /\ cur = 1
    /\ nrev = 0
    /\ ser = NoSer
    /\ opt = NoOpt
    /\ twin = NoTwin

\* the review_datetime check: the argument is given and is naive or not UTC
NotUtc(review_datetime) ==
    review_datetime # None /\ Val(review_datetime).tzinfo # "utc"

\* the review times the caller passes are in time order: a card is not
\* reviewed at a time before its last review
InTimeOrder(card, review_datetime) ==
    IF card.last_review = None THEN TRUE
    ELSE review_datetime >= Val(card.last_review)

\* card, log = scheduler.review_card(card, rating, review_datetime, review_duration)
\* raising ValueError: review_datetime is given and is not timezone-aware UTC
ReviewCardValueError(rating, review_datetime) ==
    /\ NotUtc(review_datetime)
    /\ UNCHANGED << heap, cur >>
    /\ last' = [ NoCall(heap[cur]) EXCEPT
                   !.called = TRUE,
                   !.raised = Some("ValueError"),
                   !.arg    = cur,
                   !.rating = rating,
                   !.review_datetime = Some(Val(review_datetime).t),
                   !.tzinfo = Val(review_datetime).tzinfo ]

\* review_card raises from the match on card.state: nothing is returned
ReviewCardRaises(rating, tzinfo, rdt, sched) ==
    /\ UNCHANGED << heap, cur >>
    /\ last' = [ NoCall(heap[cur]) EXCEPT
                   !.called = TRUE,
                   !.raised = sched.raised,
                   !.arg    = cur,
                   !.rating = rating,
                   !.review_datetime = Some(rdt),
                   !.tzinfo = tzinfo ]

\* review_card returns: `card` refers to the working copy, which `out` fills
\* in; the caller takes the returned card for its own
ReviewCardReturns(rating, tzinfo, rdt, card, sched, out) ==
    /\ heap' = [heap EXCEPT ![card] = out.card]
    /\ cur' = card
    /\ last' = [ called          |-> TRUE,
                 raised          |-> None,
                 arg             |-> cur,
                 before          |-> heap[cur],
                 rating          |-> rating,
                 review_datetime |-> Some(rdt),
                 tzinfo          |-> tzinfo,
                 ret             |-> Some(card),
                 log             |-> Some(out.log),
                 update          |-> sched.update,
                 next_interval   |-> Some(out.next_interval),
                 base_interval   |-> Some(sched.next_interval),
                 goods           |-> IF rating = Good THEN last.goods + 1 ELSE 0 ]

\* the call from the match on: sched is what the match computed on the copy
ReviewCardMatched(rating, tzinfo, rdt, review_duration, sched) ==
    IF sched.raised # None
    THEN ReviewCardRaises(rating, tzinfo, rdt, sched)
    ELSE \E u \in IF CallsRandom(scheduler, sched) THEN RandomDraws ELSE {0} :
           ReviewCardReturns(rating, tzinfo, rdt, copy(cur), sched,
                             Reviewed(scheduler, heap[cur], sched, rating, rdt,
                                      review_duration, u))

\* the same call past the check: rdt is the review time (the argument, or
\* datetime.now(timezone.utc) when it is None)
ReviewCardChecked(rating, tzinfo, rdt, review_duration) ==
    /\ InTimeOrder(heap[cur], rdt)
    /\ ReviewCardMatched(rating, tzinfo, rdt, review_duration,
                         Scheduled(scheduler, heap[cur], rating, rdt))

\* nothing in the program catches an exception of review_card: the run ends with it
ReviewCard(rating, review_datetime, review_duration, now) ==
    /\ nrev < limit
    /\ last.raised = None
    /\ nrev' = nrev + 1
    /\ UNCHANGED << scheduler, limit, ser, opt >>
    /\ IF NotUtc(review_datetime)
       THEN ReviewCardValueError(rating, review_datetime)
       ELSE ReviewCardChecked(rating,
                              IF review_datetime = None THEN "utc"
                              ELSE Val(review_datetime).tzinfo,
                              IF review_datetime = None THEN now
                              ELSE Val(review_datetime).t,
                              review_duration)

\* the arguments of a call and the clock: the clock is read only when
\* review_datetime is None
Calls ==
    [rating : Rating, review_datetime : {None}, review_duration : Durations, now : Times]
    \cup
    [rating : Rating, review_datetime : {Some(d) : d \in Datetimes},
     review_duration : Durations, now : {0}]

Next ==
    \E call \in Calls :
        /\ ReviewCard(call.rating, call.review_datetime, call.review_duration, call.now)
        /\ UNCHANGED twin

Spec == Init /\ [][Next]_vars

SpecCards == InitCards /\ [][Next]_vars

\* ------------------------------------------ two runs that differ in the fuzz

\* the reviews the two runs make at most
MaxTwinReviews == 2

\* the scheduler of the second run: that of the first but for enable_fuzzing
TwinScheduler(tw) == [ scheduler EXCEPT !.enable_fuzzing = tw.enable_fuzzing ]

\* the second run past the match on card.state: it ends with the exception,
\* or has the card review_card returns, whatever its own random() returns
TwinMatched(self, rating, rdt, review_duration, sched) ==
    IF sched.raised # None THEN twin' = [ twin EXCEPT !.raised = sched.raised ]
    ELSE \E u \in IF CallsRandom(self, sched) THEN RandomDraws ELSE {0} :
           twin' = [ twin EXCEPT !.card =
                       Some(Reviewed(self, Val(twin.card), sched, rating, rdt,
                                     review_duration, u).card) ]

\* the second run past the check: rdt is the review time
TwinChecked(self, rating, rdt, review_duration) ==
    TwinMatched(self, rating, rdt, review_duration,
                Scheduled(self, Val(twin.card), rating, rdt))

\* review_card in the second run, with the arguments and the clock of the first
TwinReviewed(rating, review_datetime, review_duration, now) ==
    IF NotUtc(review_datetime) THEN twin' = [ twin EXCEPT !.raised = Some("ValueError") ]
    ELSE TwinChecked(TwinScheduler(twin), rating,
                     IF review_datetime = None THEN now ELSE Val(review_datetime).t,
                     review_duration)

\* a fuzzing Scheduler and Card(card_id=1) in both runs; the second run
\* fuzzes with draws of its own, or does not fuzz
InitTwin ==
    /\ scheduler \in { s \in Schedulers : s.enable_fuzzing }
    /\ heap = [r \in Refs |-> Card(1, Learning, None, None, None, 0, None)]
    /\ cur = 1
    /\ last = NoCall(heap[1])
    /\ nrev = 0
    /\ limit = MaxTwinReviews
    /\ ser = NoSer
    /\ opt = NoOpt
    /\ twin \in [ card : {Some(Card(1, Learning, None, None, None, 0, None))},
                  enable_fuzzing : BOOLEAN, raised : {None} ]

\* the same review in both runs
TwinReview ==
    \E call \in Calls :
        /\ ReviewCard(call.rating, call.review_datetime, call.review_duration, call.now)
        /\ TwinReviewed(call.rating, call.review_datetime, call.review_duration, call.now)

SpecTwin == InitTwin /\ [][TwinReview]_vars

\* --------------------------------------------- round trips through a dict

\* the cards that are serialised: every state and step the constructor
\* gives, stability and difficulty None, 0 and not 0, due and last_review at
\* two times
DictCards ==
    { Card(1, st[1], st[2], stability, difficulty, due, last_review) :
        st \in ({Learning} \X {None, Some(1)}) \cup ({Relearning} \X {Some(0), Some(1)})
                   \cup {<< Review, None >>},
        stability \in {None, Some(0), Some(STABILITY_MIN), Some(3260)},
        difficulty \in {None, Some(0), Some(1 * SCALE), Some(4885)},
        due \in {0, 1},
        last_review \in {None, Some(0), Some(1)} }

\* the steps of the schedulers that are serialised: whole seconds, and
\* durations with a part of a second
DictSteps ==
    { << >>, << Timedelta(60, 0), Timedelta(600, 0) >>, << Timedelta(600, 0) >>,
      << Timedelta(1, 500000) >>, << Timedelta(0, 1) >>,
      << Timedelta(60, 0), Timedelta(90, 999999) >> }

DictSchedulers ==
    { Scheduler(DEFAULT_PARAMETERS, 900, ls, rs, iv[1], iv[2]) :
        ls \in DictSteps, rs \in DictSteps, iv \in IntervalChoices }

\* an object, before to_dict
Object(kind, obj) ==
    [ kind |-> kind, phase |-> "object", obj |-> obj, dict |-> None, back |-> None ]

InitDict ==
    /\ scheduler = Scheduler(DEFAULT_PARAMETERS, 900, << >>, << >>, 36500, TRUE)
    /\ heap = [r \in Refs |-> Card(1, Learning, None, None, None, 0, None)]
    /\ cur = 1
    /\ last = NoCall(heap[1])
    /\ nrev = 0
    /\ limit = 0
    /\ opt = NoOpt
    /\ twin = NoTwin
    /\ ser \in {Object("Card", card) : card \in DictCards}
               \cup {Object("Scheduler", s) : s \in DictSchedulers}

\* dict = card.to_dict()
CardToDict ==
    /\ ser.kind = "Card" /\ ser.phase = "object"
    /\ ser' = [ser EXCEPT !.phase = "dict", !.dict = Some(Card_to_dict(ser.obj))]
    /\ UNCHANGED << reviewVars, opt, twin >>

\* card = Card.from_dict(dict)
CardFromDict ==
    /\ ser.kind = "Card" /\ ser.phase = "dict"
    /\ ser' = [ser EXCEPT !.phase = "back", !.back = Some(Card_from_dict(Val(ser.dict)))]
    /\ UNCHANGED << reviewVars, opt, twin >>

\* dict = scheduler.to_dict()
SchedulerToDict ==
    /\ ser.kind = "Scheduler" /\ ser.phase = "object"
    /\ ser' = [ser EXCEPT !.phase = "dict", !.dict = Some(Scheduler_to_dict(ser.obj))]
    /\ UNCHANGED << reviewVars, opt, twin >>

\* scheduler = Scheduler.from_dict(dict)
SchedulerFromDict ==
    /\ ser.kind = "Scheduler" /\ ser.phase = "dict"
    /\ ser' = [ser EXCEPT !.phase = "back",
                          !.back = Some(Scheduler_from_dict(Val(ser.dict)))]
    /\ UNCHANGED << reviewVars, opt, twin >>

NextDict ==
    \/ CardToDict
    \/ CardFromDict
    \/ SchedulerToDict
    \/ SchedulerFromDict

SpecDict == InitDict /\ [][NextDict]_vars

\* ---------------------------------------------- the Optimizer and its script

\* the review logs of a collection are at most MaxLogs distinct ones, repeated
MaxLogs == 3

\* a collection repeated four times has the ten logs the script asks for
\* when it has three
Repeats == {1, 4}

\* the script trains on MinLogs review logs or more
MinLogs == 10

\* review logs in UTC of two cards, on the day the first is made and on the
\* next, as review_card makes them or a client stores them
ReviewLogs ==
    { ReviewLog(c, r, t, None) :
        c \in {1, 2}, r \in {Again, Good, Easy}, t \in {0, TicksPerDay} }

Patterns == UNION { [1 .. n -> ReviewLogs] : n \in 0 .. MaxLogs }

\* a list of review logs, k times over
Repeated(pattern, k) ==
    [ i \in 1 .. k * Len(pattern) |-> pattern[((i - 1) % Len(pattern)) + 1] ]

Collections == { Repeated(p, k) : p \in Patterns, k \in Repeats }

\* an Optimizer that was constructed, or the script started with review logs
\* on its standard input: nothing has been called, printed or returned
Entered(entry, review_logs) ==
    [ entry           |-> entry,
      review_logs     |-> review_logs,
      constructed     |-> entry # "main",
      called          |-> "none",
      raised          |-> None,
      result          |-> None,
      optimizer_steps |-> 0,
      trained         |-> FALSE,
      replayed        |-> 0,
      estimated       |-> FALSE,
      probs           |-> None,
      simulations     |-> 0,
      simulation_costs |-> None,
      printed         |-> None,
      exit            |-> None ]

InitOptimizer ==
    /\ scheduler = DefaultScheduler
    /\ heap = [r \in Refs |-> Card(1, Learning, None, None, None, 0, None)]
    /\ cur = 1
    /\ last = NoCall(heap[1])
    /\ nrev = 0
    /\ limit = 0
    /\ ser = NoSer
    /\ twin = NoTwin
    /\ opt \in { Entered(e, logs) : e \in {"Optimizer", "main"}, logs \in Collections }

\* the Optimizer after a call that came to the given outcome
AfterCall(self, name, outcome) ==
    [ self EXCEPT !.called = name,
                  !.raised = outcome.raised,
                  !.result = outcome.result,
                  !.optimizer_steps = outcome.optimizer_steps,
                  !.trained = outcome.trained,
                  !.replayed = outcome.replayed ]

\* the Optimizer after a call of compute_optimal_retention
AfterRetention(self, simulation_costs, outcome) ==
    [ self EXCEPT !.called = "compute_optimal_retention",
                  !.raised = outcome.raised,
                  !.result = outcome.result,
                  !.estimated = outcome.estimated,
                  !.probs = outcome.probs,
                  !.simulations = outcome.simulations,
                  !.simulation_costs = IF outcome.simulations = 0 THEN None
                                       ELSE Some(simulation_costs) ]

\* a call of compute_optimal_parameters on the Optimizer
ComputeOptimalParameters ==
    /\ opt.entry = "Optimizer"
    /\ opt.called = "none"
    /\ opt' = AfterCall(opt, "compute_optimal_parameters",
                        compute_optimal_parameters(Optimizer(opt.review_logs)))
    /\ UNCHANGED << reviewVars, ser, twin >>

\* the script after optimizer.compute_optimal_parameters(): an exception
\* is not caught and ends the interpreter with status 1 and nothing printed;
\* otherwise the list returned is printed and the script exits with status 0
MainOptimized(self) ==
    IF self.raised # None
    THEN [ self EXCEPT !.exit = Some(1) ]
    ELSE [ self EXCEPT !.printed = Some([ trained |-> self.trained, list |-> self.result ]),
                       !.exit = Some(0) ]

\* the script from the test on the number of review logs on
MainOf(self) ==
    IF Len(self.review_logs) < MinLogs
    THEN [ self EXCEPT !.called = "main",
                       !.printed = Some([ trained |-> FALSE,
                                          list |-> Some(DEFAULT_PARAMETERS) ]),
                       !.exit = Some(0) ]
    ELSE MainOptimized(AfterCall([ self EXCEPT !.constructed = TRUE ], "main",
                                 compute_optimal_parameters(Optimizer(self.review_logs))))

\* a run of the script
Main ==
    /\ opt.entry = "main"
    /\ opt.called = "none"
    /\ opt' = MainOf(opt)
    /\ UNCHANGED << reviewVars, ser, twin >>

NextOptimizer ==
    \/ ComputeOptimalParameters
    \/ Main

\* an Optimizer on which compute_optimal_parameters is called, or a run of
\* the script
SpecOptimizer == InitOptimizer /\ [][NextOptimizer]_vars

\* ------------------------------------------------ the optimal retention

\* the review logs of a collection are at most MaxRetentionLogs distinct
\* ones, repeated up to the number of logs compute_optimal_retention asks for
MaxRetentionLogs == 2

RetentionRepeats == {1, MinRetentionLogs - 1, MinRetentionLogs}

\* review logs of two cards, rated as forgotten or as recalled, on the day
\* the first is made and on the next, with and without a duration
TimedReviewLogs ==
    { ReviewLog(c, r, t, d) :
        c \in {1, 2}, r \in {Again, Good}, t \in {0, TicksPerDay},
        d \in {None, Some(1500)} }

RetentionCollections ==
    { Repeated(p, k) :
        p \in UNION { [1 .. n -> TimedReviewLogs] : n \in 1 .. MaxRetentionLogs },
        k \in RetentionRepeats }

\* the costs the six simulations come to: the first, a middle or the last
\* candidate is the cheapest, alone or with another, or all cost the same
SimulationCosts ==
    { << 3, 3, 3, 3, 3, 3 >>, << 1, 2, 3, 3, 2, 1 >>, << 3, 2, 1, 2, 3, 4 >>,
      << 5, 4, 2, 2, 3, 3 >>, << 6, 5, 4, 3, 2, 1 >> }

InitRetention ==
    /\ scheduler = DefaultScheduler
    /\ heap = [r \in Refs |-> Card(1, Learning, None, None, None, 0, None)]
    /\ cur = 1
    /\ last = NoCall(heap[1])
    /\ nrev = 0
    /\ limit = 0
    /\ ser = NoSer
    /\ twin = NoTwin
    /\ opt \in { Entered("Optimizer", logs) : logs \in RetentionCollections }

\* a call of compute_optimal_retention on the Optimizer
ComputeOptimalRetention ==
    /\ opt.entry = "Optimizer"
    /\ opt.called = "none"
    /\ \E simulation_costs \in SimulationCosts :
          opt' = AfterRetention(opt, simulation_costs,
                                compute_optimal_retention(Optimizer(opt.review_logs),
                                                          simulation_costs))
    /\ UNCHANGED << reviewVars, ser, twin >>

\* an Optimizer on which compute_optimal_retention is called
SpecRetention == InitRetention /\ [][ComputeOptimalRetention]_vars

\* ------------------------------------- the replays of the optimisation

\* a call of compute_optimal_parameters that has just begun: _num_reviews
\* is at the first review of the first card.  The call is in one of its
\* three loops over the reviews (phase "count": _num_reviews, "train": an
\* epoch, "loss": _compute_batch_loss) at review i of the k-th card of
\* `order`, or is over ("done")
Optimising(m, direction) ==
    [ entry           |-> "training",
      data            |-> m,
      direction       |-> direction,
      phase           |-> "count",
      order           |-> SortedKeys(TrainingCards),
      k               |-> 1,
      i               |-> 1,
      card            |-> None,
      term            |-> FALSE,          \* the review just replayed gave a loss term
      at              |-> << 0, 0 >>,     \* the card_id and the number of that review
      num_reviews     |-> 0,
      T_max           |-> 0,
      params          |-> DEFAULT_PARAMETERS,
      epoch           |-> 0,              \* j
      pending         |-> 0,              \* len(step_losses)
      peak            |-> 0,              \* the greatest len(step_losses) there was
      terms           |-> 0,              \* the loss terms collected in this loop
      epoch_steps     |-> 0,              \* the optimizer steps of this epoch
      optimizer_steps |-> 0,              \* calls of adam_optimizer.step()
      lr_steps        |-> 0,              \* calls of lr_scheduler.step()
      epoch_terms     |-> << >>,          \* by epoch: the loss terms of the epoch,
      batch_terms     |-> << >>,          \*   those of _compute_batch_loss,
      steps_per_epoch |-> << >>,          \*   the optimizer steps,
      losses          |-> << >>,          \*   epoch_batch_loss
      snapshots       |-> << >>,          \*   and detached_params
      best_loss       |-> None,           \* None for math.inf
      best_params     |-> None,
      raised          |-> None,
      result          |-> None ]

InitTraining ==
    /\ scheduler = DefaultScheduler
    /\ heap = [r \in Refs |-> Card(1, Learning, None, None, None, 0, None)]
    /\ cur = 1
    /\ last = NoCall(heap[1])
    /\ nrev = 0
    /\ limit = 0
    /\ ser = NoSer
    /\ twin = NoTwin
    /\ opt \in { Optimising(m, direction) : m \in LastHistories, direction \in Directions }

\* self._revlogs_train[card_id][:max_seq_len] of the card the loop is at
CurrentHistory(o) == Truncated(TrainingData(o.data)[o.order[o.k]])

\* if i == 0: card = Card(card_id=card_id, due=x_date)
CurrentCard(o, history) ==
    IF o.i = 1
    THEN Card(o.order[o.k], Learning, None, None, None, history[1].review_datetime, None)
    ELSE Val(o.card)

\* the loop goes on to the next review of the card, or to the next card
Advanced(o, history) ==
    IF o.i < Len(history) THEN [ o EXCEPT !.i = o.i + 1 ]
    ELSE [ o EXCEPT !.k = o.k + 1, !.i = 1 ]

\* the body of each of the three loops: a loss term (or a count) if the
\* review is not a same-day review, then review_card, which may raise
Replay(o, history, card, eligible, sched) ==
    IF sched.raised # None
    THEN [ o EXCEPT !.phase = "done", !.raised = sched.raised ]
    ELSE Advanced([ o EXCEPT
                      !.card = Some(Reviewed(scheduler, card, sched, history[o.i].rating,
                                             history[o.i].review_datetime, None, 0).card),
                      !.term = eligible,
                      !.at = << o.order[o.k], o.i >>,
                      !.terms = @ + (IF eligible THEN 1 ELSE 0),
                      !.pending = @ + (IF eligible /\ o.phase = "train" THEN 1 ELSE 0),
                      !.peak = IF eligible /\ o.phase = "train"
                               THEN Max(@, o.pending + 1) ELSE @ ],
                  history)

ReplayOn(o, history, card) ==
    Replay(o, history, card, Eligible(card, history[o.i].review_datetime),
           Scheduled(scheduler, card, history[o.i].rating, history[o.i].review_datetime))

ReplayAt(o, history) == ReplayOn(o, history, CurrentCard(o, history))

\* the loop of the phase is at a review
InLoop(phase) ==
    /\ opt.entry = "training"
    /\ opt.phase = phase
    /\ opt.k <= Len(opt.order)

\* the loop of the phase is over
LoopOver(phase) ==
    /\ opt.entry = "training"
    /\ opt.phase = phase
    /\ opt.k > Len(opt.order)

\* _num_reviews: one review of the loop, under Scheduler()
CountReview ==
    /\ InLoop("count")
    /\ opt' = ReplayAt(opt, CurrentHistory(opt))
    /\ UNCHANGED << reviewVars, ser, twin >>

\* the beginning of an epoch: the cards are shuffled, scheduler is made of
\* params and step_losses is empty
EpochBegun(o, order) ==
    [ o EXCEPT !.phase = "train", !.order = order, !.k = 1, !.i = 1, !.card = None,
               !.pending = 0, !.terms = 0, !.epoch_steps = 0 ]

\* compute_optimal_parameters after _num_reviews: the default parameters
\* are returned, or the training is set up and the first epoch begins
Counted(o, order) ==
    IF o.terms < mini_batch_size
    THEN [ o EXCEPT !.phase = "done", !.num_reviews = o.terms,
                    !.result = Some(DEFAULT_PARAMETERS) ]
    ELSE EpochBegun([ o EXCEPT !.num_reviews = o.terms,
                               !.T_max = Ceil(o.terms, mini_batch_size) * num_epochs,
                               !.params = DEFAULT_PARAMETERS ],
                    order)

CountDone ==
    /\ LoopOver("count")
    /\ \E order \in Shuffles(SortedKeys(DOMAIN TrainingData(opt.data))) :
          opt' = Counted(opt, order)
    /\ scheduler' = SchedulerOf(DEFAULT_PARAMETERS)
    /\ UNCHANGED << heap, cur, last, nrev, limit, ser, twin >>

\* _update_parameters: the step of Adam, the clamp of the parameters and
\* the step of the learning rate; the caller then empties step_losses
Updated(o) ==
    [ o EXCEPT !.params = Clamped(Stepped(o.params, o.direction)),
               !.optimizer_steps = @ + 1,
               !.lr_steps = @ + 1,
               !.epoch_steps = @ + 1,
               !.pending = 0 ]

\* if len(step_losses) == mini_batch_size: take a gradient step
Batched(o) == IF o.pending = mini_batch_size THEN Updated(o) ELSE o

\* an epoch: one review of the loop, and the gradient step after it when
\* the mini-batch is full; scheduler is then made of the new parameters
TrainReview ==
    /\ InLoop("train")
    /\ opt' = Batched(ReplayAt(opt, CurrentHistory(opt)))
    /\ scheduler' = IF opt'.optimizer_steps = opt.optimizer_steps THEN scheduler
                    ELSE SchedulerOf(opt'.params)
    /\ UNCHANGED << heap, cur, last, nrev, limit, ser, twin >>

\* the remaining losses of an epoch are left without a step
Flushed_dropped(o) == o

\* if len(step_losses) > 0: update params on remaining review logs
Flushed(o) == IF o.pending > 0 THEN Updated(o) ELSE o

\* the end of an epoch: _compute_batch_loss begins with detached_params,
\* at the first review of the first card
LossBegun(o, epoch_terms) ==
    [ o EXCEPT !.phase = "loss",
               !.order = SortedKeys(DOMAIN TrainingData(o.data)),
               !.k = 1, !.i = 1, !.card = None, !.terms = 0,
               !.epoch_terms = Append(@, epoch_terms),
               !.steps_per_epoch = Append(@, o.epoch_steps) ]

EpochDone ==
    /\ LoopOver("train")
    /\ opt' = LossBegun(Flushed(opt), opt.terms)
    /\ scheduler' = SchedulerOf(opt'.params)
    /\ UNCHANGED << heap, cur, last, nrev, limit, ser, twin >>

\* _compute_batch_loss: one review of the loop
LossReview ==
    /\ InLoop("loss")
    /\ opt' = ReplayAt(opt, CurrentHistory(opt))
    /\ UNCHANGED << reviewVars, ser, twin >>

\* if epoch_batch_loss < best_loss: the loss and the parameters are kept
Selected(o, loss) ==
    [ o EXCEPT !.losses = Append(@, loss),
               !.snapshots = Append(@, o.params),
               !.batch_terms = Append(@, o.terms),
               !.best_loss = IF Better(loss, o.best_loss) THEN Some(loss) ELSE @,
               !.best_params = IF Better(loss, o.best_loss) THEN Some(o.params) ELSE @ ]

\* the next epoch begins, or best_params is returned after the last
Continued(o, order) ==
    IF o.epoch + 1 < num_epochs THEN EpochBegun([ o EXCEPT !.epoch = @ + 1 ], order)
    ELSE [ o EXCEPT !.phase = "done", !.epoch = @ + 1, !.result = o.best_params ]

\* _compute_batch_loss returns the loss of the epoch
LossDone ==
    /\ LoopOver("loss")
    /\ \E loss \in Losses, order \in Shuffles(opt.order) :
          opt' = Continued(Selected(opt, loss), order)
    /\ UNCHANGED << reviewVars, ser, twin >>

NextTraining ==
    \/ CountReview
    \/ CountDone
    \/ TrainReview
    \/ EpochDone
    \/ LossReview
    \/ LossDone

\* a call of compute_optimal_parameters, review by review
SpecTraining == InitTraining /\ [][NextTraining]_vars

\* ------------------------------------------- the retrievability of a card

\* elapsed times, in ascending order, from before the last review to two
\* months after it
ElapsedProbes ==
    << -3, -1, 0, 1, TimedeltaDays(1), TimedeltaDays(1) + 1, TimedeltaDays(2) + 1,
       TimedeltaDays(4), TimedeltaDays(7), TimedeltaDays(14), TimedeltaDays(30),
       TimedeltaDays(60) >>

\* stabilities from the least to the initial stability of the greatest
\* parameters, and the difficulties with them
ProbedMemories ==
    { << Some(STABILITY_MIN), Some(1 * SCALE) >>, << Some(212), Some(7011) >>,
      << Some(3260), Some(4885) >>, << Some(INIT_S_MAX), Some(10 * SCALE) >> }

\* cards that were reviewed, at time 0 or later, and cards that never were
ProbedCards ==
    { Card(1, state, None, memory[1], memory[2], 5, last_review) :
        state \in {Learning, Review, Relearning}, memory \in ProbedMemories,
        last_review \in {None, Some(0), Some(3)} }
    \cup { Card(1, Learning, None, None, None, 0, None) }

\* no call of get_card_retrievability was made yet
Probing ==
    [ entry |-> "retrievability", k |-> 0, elapsed |-> None, value |-> None, before |-> None ]

InitRetrievability ==
    /\ scheduler \in { DefaultScheduler, SchedulerOf(lower_bounds), SchedulerOf(upper_bounds) }
    /\ heap \in { [r \in Refs |-> card] : card \in ProbedCards }
    /\ cur = 1
    /\ last = NoCall(heap[1])
    /\ nrev = 0
    /\ limit = 0
    /\ ser = NoSer
    /\ twin = NoTwin
    /\ opt = Probing

\* the time `elapsed` after the last review of the card, or after time 0
ProbeTime(card, elapsed) ==
    (IF card.last_review = None THEN 0 ELSE Val(card.last_review)) + elapsed

\* the call at the next elapsed time returned
ProbedAt(o, elapsed, retrievability) ==
    [ o EXCEPT !.k = o.k + 1,
               !.elapsed = Some(elapsed),
               !.value = Some(retrievability),
               !.before = o.value ]

\* scheduler.get_card_retrievability(card, current_datetime), at the next of
\* the elapsed times
GetCardRetrievability ==
    /\ opt.entry = "retrievability"
    /\ opt.k < Len(ElapsedProbes)
    /\ opt' = ProbedAt(opt, ElapsedProbes[opt.k + 1],
                       get_card_retrievability(scheduler, heap[cur],
                                               ProbeTime(heap[cur], ElapsedProbes[opt.k + 1])))
    /\ UNCHANGED << reviewVars, ser, twin >>

\* calls of get_card_retrievability on a card at later and later times
SpecRetrievability == InitRetrievability /\ [][GetCardRetrievability]_vars

\* ----------------------------------------------- the simulation of reviews

\* the days from start_date to end_date, a year in the program
SimulatedDays == 3

\* num_cards_simulate, 1000 in the program
SimulatedCards == 2

\* the reviews of one card that a run explores
MaxSimulatedReviews == 4

\* the parameters a simulation is called with: the default ones, and the
\* least and the greatest an optimisation can return
SimulatedParameters == { DEFAULT_PARAMETERS, lower_bounds, upper_bounds }

\* the average durations of probs_and_costs_dict by rating, in seconds, of
\* the first review of a card and of the others
first_review_durations == << 9, 7, 5, 4 >>

review_durations == << 8, 6, 5, 3 >>

start_date == 0

\* SimulatedDays days after start_date, on the clock of the simulation
end_date == SimulatedDays * SimulationTicksPerDay

\* a one-step relearning ladder of a day: the second review of a lapse comes
\* a day after the first
SimulationScheduler_daily_relearning(parameters, desired_retention) ==
    Scheduler(parameters, desired_retention,
              << TimedeltaMinutes(1), TimedeltaMinutes(10) >>,
              << TimedeltaDays(1) >>, 36500, FALSE)

\* Scheduler(parameters=parameters, desired_retention=desired_retention,
\* enable_fuzzing=False), with the default steps of 1 and 10 minutes and of
\* 10 minutes
SimulationScheduler(parameters, desired_retention) ==
    Scheduler(parameters, desired_retention,
              << TimedeltaMinutes(1), TimedeltaMinutes(10) >>,
              << TimedeltaMinutes(10) >>, 36500, FALSE)

\* card = Card(); curr_date = start_date.  The card is due when it is made,
\* after the year simulated
NextSimulated(o) ==
    [ o EXCEPT !.i = o.i + 1,
               !.card = Card(o.i + 1, Learning, None, None, None, end_date, None),
               !.curr_date = start_date,
               !.reviews = 0,
               !.reviewed_at = None ]

\* _simulate_cost before the first card
Simulating(parameters, desired_retention) ==
    NextSimulated([ entry            |-> "simulation",
                    phase            |-> "cards",
                    parameters       |-> parameters,
                    desired_retention |-> desired_retention,
                    i                |-> 0,
                    card             |-> None,
                    curr_date        |-> start_date,
                    reviews          |-> 0,
                    reviewed_at      |-> None,
                    lapses           |-> 0,
                    simulation_cost  |-> 0,
                    raised           |-> None,
                    result           |-> None ])

InitSimulation ==
    /\ opt \in { Simulating(parameters, DESIRED_RETENTIONS[r]) :
                    parameters \in SimulatedParameters,
                    r \in 1 .. Len(DESIRED_RETENTIONS) }
    /\ scheduler = SimulationScheduler(opt.parameters, opt.desired_retention)
    /\ heap = [r \in Refs |-> Card(1, Learning, None, None, None, 0, None)]
    /\ cur = 1
    /\ last = NoCall(heap[1])
    /\ nrev = 0
    /\ limit = 0
    /\ ser = NoSer
    /\ twin = NoTwin

\* the duration the review adds to simulation_cost
DurationOf(o, rating) ==
    IF o.curr_date = start_date THEN first_review_durations[rating]
    ELSE review_durations[rating]

\* the body of the while loop: the cost of the rating drawn, review_card at
\* curr_date, which may raise, and curr_date = card.due
SimulatedReview(o, rating, sched, card) ==
    IF sched.raised # None
    THEN [ o EXCEPT !.phase = "done", !.raised = sched.raised ]
    ELSE [ o EXCEPT !.card = card,
                    !.curr_date = card.due,
                    !.reviews = o.reviews + 1,
                    !.reviewed_at = Some(o.curr_date),
                    !.lapses = @ + (IF o.card.state = Relearning THEN 1 ELSE 0),
                    !.simulation_cost = @ + DurationOf(o, rating) ]

SimulatedWith(o, rating, sched) ==
    SimulatedReview(o, rating, sched,
                    IF sched.raised # None THEN o.card
                    ELSE Reviewed(scheduler, o.card, sched, rating, o.curr_date, None, 0).card)

\* while curr_date < end_date: one review of the card, of any rating
SimulateReview ==
    /\ opt.entry = "simulation"
    /\ opt.phase = "cards"
    /\ opt.curr_date < end_date
    /\ opt.reviews < MaxSimulatedReviews
    /\ \E rating \in {Again, Hard, Good, Easy} :
          opt' = SimulatedWith(opt, rating, Scheduled(scheduler, opt.card, rating, opt.curr_date))
    /\ UNCHANGED << reviewVars, ser, twin >>

\* the while loop is over and the for loop goes on to the next card
SimulateCard ==
    /\ opt.entry = "simulation"
    /\ opt.phase = "cards"
    /\ opt.curr_date >= end_date
    /\ opt.i < SimulatedCards
    /\ opt' = NextSimulated(opt)
    /\ UNCHANGED << reviewVars, ser, twin >>

\* the for loop is over: simulation_cost / (desired_retention * num_cards_simulate)
SimulateReturn ==
    /\ opt.entry = "simulation"
    /\ opt.phase = "cards"
    /\ opt.curr_date >= end_date
    /\ opt.i = SimulatedCards
    /\ opt' = [ opt EXCEPT !.phase = "done",
                           !.result = Some(FDiv(opt.simulation_cost * SCALE,
                                                opt.desired_retention * SimulatedCards)) ]
    /\ UNCHANGED << reviewVars, ser, twin >>

NextSimulation == SimulateReview \/ SimulateCard \/ SimulateReturn

\* a call of _simulate_cost
SpecSimulation == InitSimulation /\ [][NextSimulation]_vars

\* ----------------------------------------------------------------- claims

\* the most recent call returned a card
Returned == last.ret # None

\* the card the most recent call returned, which the caller now holds
result == heap[cur]

\* the interval of the returned card, as the caller can observe it
ResultInterval == result.due - Val(result.last_review)

\* the steps of a ladder are listed in ascending order
Ascending(steps) == \A i \in 1 .. Len(steps) - 1 : steps[i] <= steps[i + 1]

\* C1: after any sequence of reviews of a fresh card, the returned card is in
\* state Review exactly when its step is None
C1_ReviewIffNoStep ==
    Returned => ((result.state = Review) <=> (result.step = None))

\* a card in Relearning, with a step, was returned to Review, without one
C1_Witness ==
    /\ Returned
    /\ last.before.state = Relearning
    /\ last.before.step # None
    /\ result.state = Review
    /\ result.step = None

\* C2: review_card never changes the Card object it was given: it works on
\* a copy, another object, and returns that one
C2_InputCardUnchanged ==
    last.called =>
        /\ heap[last.arg] = last.before
        /\ Returned => Val(last.ret) # last.arg

\* a second review returned a card that differs from the card passed
C2_Witness ==
    /\ Returned
    /\ nrev >= 2
    /\ result # last.before
    /\ heap[last.arg] = last.before

\* C3: a review_datetime that is naive or not UTC makes review_card raise
\* ValueError with no card changed and no card or log produced, and only
\* such a datetime does: the clock's datetime, taken when the argument is
\* None, is UTC
C3_NonUtcRejected ==
    [][ /\ (last'.tzinfo # "utc") <=> (last'.raised = Some("ValueError"))
        /\ last'.tzinfo # "utc" =>
              /\ heap' = heap
              /\ cur' = cur
              /\ last'.ret = None
              /\ last'.log = None ]_vars

\* a reviewed card was passed with a datetime of another zone: ValueError
C3_Witness ==
    /\ last.raised = Some("ValueError")
    /\ last.tzinfo = "other"
    /\ last.ret = None
    /\ nrev >= 2
    /\ heap[cur].last_review # None

\* C4: reviewing a card in Relearning one whole day or more after its last
\* review, or with no last review, completes normally with the long-term
\* update of stability and difficulty
C4_RelearningLongTerm ==
    ( /\ last.called
      /\ last.tzinfo = "utc"
      /\ last.before.state = Relearning
      /\ IF last.before.last_review = None THEN TRUE
         ELSE Days(Val(last.review_datetime) - Val(last.before.last_review)) >= 1 )
    => (last.raised = None /\ Returned /\ last.update = "long")

\* C5: the returned card has last_review equal to the review time and due
\* equal to the review time plus the interval of the review, which is
\* positive: due is later than last_review
C5_DueAfterLastReview ==
    Returned =>
        /\ result.last_review = last.review_datetime
        /\ result.due = Val(last.review_datetime) + Val(last.next_interval)
        /\ Val(last.next_interval) > 0
        /\ result.due > Val(result.last_review)

\* a review later than the card's creation left it on a ladder, due a step later
C5_Witness ==
    /\ Returned
    /\ Val(last.review_datetime) > 0
    /\ result.state # Review
    /\ result.due > Val(last.review_datetime)

\* C6: the interval of a review is at least one day when the card is
\* returned in Review and, the steps being ascending, at least the first
\* step of its ladder when it is returned in Learning or Relearning
C6_IntervalLowerBound ==
    Returned =>
        CASE result.state = Review -> ResultInterval >= TimedeltaDays(1)
          [] result.state = Learning ->
               Ascending(scheduler.learning_steps) =>
                   IF Len(scheduler.learning_steps) = 0 THEN FALSE
                   ELSE ResultInterval >= scheduler.learning_steps[1]
          [] result.state = Relearning ->
               Ascending(scheduler.relearning_steps) =>
                   IF Len(scheduler.relearning_steps) = 0 THEN FALSE
                   ELSE ResultInterval >= scheduler.relearning_steps[1]

\* a card graduated with a stability that rounds to less than one day
C6_Witness ==
    /\ Returned
    /\ result.state = Review
    /\ 2 * Val(result.stability) < SCALE
    /\ ResultInterval = TimedeltaDays(1)

\* C7: after review_card the difficulty of the card is in [1, 10] and its
\* stability is at least STABILITY_MIN
C7_Clamped ==
    Returned =>
        /\ result.difficulty # None
        /\ result.stability # None
        /\ 1 * SCALE <= Val(result.difficulty)
        /\ Val(result.difficulty) <= 10 * SCALE
        /\ Val(result.stability) >= STABILITY_MIN

\* a card rated Easy was returned with the lowest difficulty
C7_Witness ==
    /\ Returned
    /\ last.rating = Easy
    /\ last.before.difficulty # None
    /\ result.difficulty = Some(1 * SCALE)

\* C8: the stability of a card is set exactly when its difficulty is: both
\* are None before the first review and both are set after every review
C8_StabilityIffDifficulty ==
    /\ (heap[cur].stability = None) <=> (heap[cur].difficulty = None)
    /\ nrev = 0 => heap[cur].stability = None
    /\ Returned => heap[cur].stability # None /\ heap[cur].difficulty # None

\* the first review of a card set both
C8_Witness ==
    /\ Returned
    /\ last.before.stability = None
    /\ last.before.difficulty = None
    /\ result.stability # None
    /\ result.difficulty # None

\* next_interval(stability) days, for the stability of the returned card
StabilityInterval == TimedeltaDays(_next_interval(scheduler, Val(result.stability)))

\* the returned card's interval goes through no fuzz: fuzzing is disabled or
\* next_interval(stability) is less than 2.5 days
Unfuzzed ==
    \/ ~scheduler.enable_fuzzing
    \/ 10 * _next_interval(scheduler, Val(result.stability)) < 25

\* a Learning card was reviewed with no learning steps and a card was returned
SteplessLearningReview ==
    /\ Returned
    /\ scheduler.learning_steps = << >>
    /\ last.before.state = Learning

\* a Review card was rated Again with no relearning steps and a card was returned
SteplessLapse ==
    /\ Returned
    /\ scheduler.relearning_steps = << >>
    /\ last.before.state = Review
    /\ last.rating = Again

\* C9 as stated: with learning_steps empty the review of a Learning card
\* graduates it for every rating, and the result has state Review, step None
\* and an interval of next_interval(stability) days
C9_AsStated ==
    SteplessLearningReview =>
        /\ result.state = Review
        /\ result.step = None
        /\ ResultInterval = StabilityInterval

\* C9: with learning_steps empty the review of a Learning card graduates it
\* for every rating: the result has state Review, step None and, before the
\* fuzz, an interval of next_interval(stability) days, which is the interval
\* of the result when fuzzing is disabled or it is less than 2.5 days
C9_GraduatesAtOnce ==
    SteplessLearningReview =>
        /\ result.state = Review
        /\ result.step = None
        /\ Val(last.base_interval) = StabilityInterval
        /\ Unfuzzed => ResultInterval = StabilityInterval

\* a fresh card rated Again graduated at its first review
C9_Witness ==
    /\ SteplessLearningReview
    /\ last.rating = Again
    /\ last.update = "initial"
    /\ result.state = Review
    /\ ResultInterval = StabilityInterval

\* C10 as stated: with relearning_steps empty a Review card rated Again stays
\* in Review with step None and an interval of next_interval(stability)
\* days, and no review of a fresh card reaches Relearning
C10_AsStated ==
    /\ SteplessLapse =>
          /\ result.state = Review
          /\ result.step = None
          /\ ResultInterval = StabilityInterval
    /\ scheduler.relearning_steps = << >> => heap[cur].state # Relearning

\* C10: with relearning_steps empty a Review card rated Again stays in
\* Review with step None and, before the fuzz, an interval of
\* next_interval(stability) days, which is the interval of the result when
\* fuzzing is disabled or it is less than 2.5 days; no review of a fresh card
\* reaches Relearning
C10_NeverRelearning ==
    /\ SteplessLapse =>
          /\ result.state = Review
          /\ result.step = None
          /\ Val(last.base_interval) = StabilityInterval
          /\ Unfuzzed => ResultInterval = StabilityInterval
    /\ scheduler.relearning_steps = << >> => heap[cur].state # Relearning

\* a graduated card was rated Again and stayed in Review
C10_Witness ==
    /\ SteplessLapse
    /\ nrev >= 2
    /\ result.state = Review
    /\ result.step = None
    /\ result.stability # last.before.stability

\* C11: with relearning steps, a Review card rated Again is returned in
\* Relearning at step 0, due the first relearning step after the review
\* time, with no fuzz whether fuzzing is enabled or not; rated Hard, Good or
\* Easy it is returned in Review with step None
C11_LapseEntersRelearning ==
    (Returned /\ last.before.state = Review /\ Len(scheduler.relearning_steps) > 0) =>
        IF last.rating = Again
        THEN /\ result.state = Relearning
             /\ result.step = Some(0)
             /\ result.due = Val(last.review_datetime) + scheduler.relearning_steps[1]
        ELSE /\ result.state = Review
             /\ result.step = None

\* with fuzzing enabled and two relearning steps, a Review card rated Again
\* came back in Relearning, due one step later
C11_Witness ==
    /\ Returned
    /\ last.before.state = Review
    /\ last.rating = Again
    /\ scheduler.enable_fuzzing
    /\ Len(scheduler.relearning_steps) = 2
    /\ result.state = Relearning
    /\ result.due = Val(last.review_datetime) + scheduler.relearning_steps[1]

\* C12: with fuzzing enabled, an interval of d >= 3 whole days is fuzzed to
\* a number of days in [max(2, round(d - delta)), min(maximum_interval,
\* round(d + delta))], delta being one plus the sum over the three bands,
\* for every random draw
C12_FuzzWithinRange ==
    ( /\ Returned
      /\ scheduler.enable_fuzzing
      /\ result.state = Review
      /\ Days(Val(last.base_interval)) >= 3 )
    => LET d     == Days(Val(last.base_interval))
           delta == FuzzDelta(d)
           fuzzed_interval_days == Days(Val(last.next_interval))
       IN  /\ Max(2, Round(d * SCALE - delta, SCALE)) <= fuzzed_interval_days
           /\ fuzzed_interval_days
                <= Min(scheduler.maximum_interval, Round(d * SCALE + delta, SCALE))

\* C13: a card returned in Review has an interval of a whole number of days,
\* at least 1 and at most maximum_interval, with fuzzing enabled or disabled
\* and for every random draw
C13_ReviewIntervalWholeDays ==
    (Returned /\ result.state = Review) =>
        /\ ResultInterval = TimedeltaDays(Days(ResultInterval))
        /\ 1 <= Days(ResultInterval)
        /\ Days(ResultInterval) <= scheduler.maximum_interval

\* an interval that went through the fuzz came back at maximum_interval
C13_Witness ==
    /\ Returned
    /\ result.state = Review
    /\ scheduler.enable_fuzzing
    /\ 10 * Days(Val(last.base_interval)) >= 25
    /\ Days(ResultInterval) = scheduler.maximum_interval

\* what review_card returns for these arguments should random() return
\* u / RandDen: the card and the log
Outcome(card, rating, review_datetime, review_duration, u) ==
    LET out == Reviewed(scheduler, card,
                        Scheduled(scheduler, card, rating, review_datetime),
                        rating, review_datetime, review_duration, u)
    IN  [card |-> out.card, log |-> out.log]

\* C14: with fuzzing disabled review_card is deterministic: the card and the
\* log it returns are the same, field by field, for equal scheduler
\* configuration, card fields, rating, review_datetime and review_duration,
\* whatever random() would return
C14_Deterministic ==
    [][ (~scheduler.enable_fuzzing /\ last'.ret # None) =>
          \A u \in RandomDraws :
              [card |-> heap'[cur'], log |-> Val(last'.log)]
                = Outcome(heap[cur], last'.rating, Val(last'.review_datetime),
                          Val(last'.log).review_duration, u) ]_vars

\* without fuzzing a card was returned in Review with an interval the fuzz
\* would have changed
C14_Witness ==
    /\ Returned
    /\ ~scheduler.enable_fuzzing
    /\ result.state = Review
    /\ Days(ResultInterval) >= 3
    /\ nrev >= 2

\* a card went through to_dict and from_dict
CardRoundTrip == ser.kind = "Card" /\ ser.phase = "back"

\* C15: Card.from_dict(card.to_dict()) has every field of card when the
\* stability and the difficulty of card are each None or not 0, and differs
\* from card exactly when one of them is 0, which comes back as None
C15_CardRoundTrip ==
    CardRoundTrip =>
        LET card == ser.obj
            back == Val(ser.back)
        IN  /\ (back = card) <=> (card.stability # Some(0) /\ card.difficulty # Some(0))
            /\ back.card_id = card.card_id /\ back.state = card.state
            /\ back.step = card.step /\ back.due = card.due
            /\ back.last_review = card.last_review
            /\ back.stability = (IF card.stability = Some(0) THEN None ELSE card.stability)
            /\ back.difficulty = (IF card.difficulty = Some(0) THEN None ELSE card.difficulty)

\* a Relearning card with stability 0 and a difficulty came back with
\* stability None and the same difficulty
C15_Witness ==
    /\ CardRoundTrip
    /\ ser.obj.state = Relearning
    /\ ser.obj.stability = Some(0)
    /\ ser.obj.difficulty = Some(4885)
    /\ ser.obj.last_review = Some(0)
    /\ Val(ser.back).stability = None
    /\ Val(ser.back).difficulty = Some(4885)

\* a scheduler went through to_dict and from_dict
SchedulerRoundTrip == ser.kind = "Scheduler" /\ ser.phase = "back"

\* the configuration of the scheduler that came back is that of the one sent
SameConfiguration ==
    LET s    == ser.obj
        back == Val(ser.back)
    IN  /\ back.parameters = s.parameters
        /\ back.desired_retention = s.desired_retention
        /\ back.learning_steps = s.learning_steps
        /\ back.relearning_steps = s.relearning_steps
        /\ back.maximum_interval = s.maximum_interval
        /\ back.enable_fuzzing = s.enable_fuzzing

\* every step is a positive duration
PositiveSteps(steps) ==
    \A i \in 1 .. Len(steps) : steps[i].seconds > 0 \/ steps[i].microseconds > 0

\* every step is a whole number of seconds
WholeSeconds(steps) == \A i \in 1 .. Len(steps) : steps[i].microseconds = 0

\* C16 as stated: Scheduler.from_dict(s.to_dict()) has every configuration
\* field of s, for every s whose steps are positive durations
C16_AsStated ==
    ( /\ SchedulerRoundTrip
      /\ PositiveSteps(ser.obj.learning_steps)
      /\ PositiveSteps(ser.obj.relearning_steps) )
    => SameConfiguration

\* C16: Scheduler.from_dict(s.to_dict()) has every configuration field of
\* s, for every s whose steps are positive whole numbers of seconds
C16_SchedulerRoundTrip ==
    ( /\ SchedulerRoundTrip
      /\ PositiveSteps(ser.obj.learning_steps) /\ WholeSeconds(ser.obj.learning_steps)
      /\ PositiveSteps(ser.obj.relearning_steps) /\ WholeSeconds(ser.obj.relearning_steps) )
    => SameConfiguration

\* a scheduler with steps of one and ten minutes came back the same
C16_Witness ==
    /\ SchedulerRoundTrip
    /\ ser.obj.learning_steps = << Timedelta(60, 0), Timedelta(600, 0) >>
    /\ ser.obj.relearning_steps = << Timedelta(600, 0) >>
    /\ Val(ser.dict).learning_steps = ListOf(<< 60, 600 >>)
    /\ SameConfiguration

\* the eligible reviews of a history: those that are not the first of the card
\* and come a day or more after the review before them
RECURSIVE EligibleFrom(_, _)
EligibleFrom(history, i) ==
    IF i > Len(history) THEN 0
    ELSE (IF Days(history[i].review_datetime - history[i - 1].review_datetime) > 0
          THEN 1 ELSE 0) + EligibleFrom(history, i + 1)

RECURSIVE EligibleOf(_, _)
EligibleOf(revlogs_train, card_ids) ==
    IF card_ids = {} THEN 0
    ELSE LET c == CHOOSE k \in card_ids : TRUE
         IN  EligibleFrom(Truncated(revlogs_train[c]), 2)
                 + EligibleOf(revlogs_train, card_ids \ {c})

EligibleSteps(review_logs) ==
    EligibleOf(_format_revlogs(review_logs), DOMAIN _format_revlogs(review_logs))

\* C17: compute_optimal_parameters returns exactly the default parameters,
\* without an optimizer step, whenever the eligible (non-first, non-same-day)
\* reviews of the truncated histories are fewer than 512.  (The replay that
\* counts them calls review_card, which raises on a card in Relearning
\* reviewed a day or more after its lapse.)
C17_DefaultsBelowMiniBatch ==
    ( /\ opt.entry = "Optimizer"
      /\ opt.called = "compute_optimal_parameters"
      /\ EligibleSteps(opt.review_logs) < mini_batch_size )
    => /\ opt.raised = None
       /\ opt.result = Some(DEFAULT_PARAMETERS)
       /\ opt.optimizer_steps = 0

\* C18: the script given fewer than 10 review logs prints the default
\* parameters and exits 0 without constructing an Optimizer or replaying a
\* review; given 10 or more it prints the result of
\* compute_optimal_parameters and exits 0.  (An exception of
\* compute_optimal_parameters is not caught.)
C18_ScriptPrintsAndExits ==
    (opt.entry = "main" /\ opt.called = "main")
    => /\ opt.exit = Some(0)
       /\ IF Len(opt.review_logs) < MinLogs
          THEN /\ opt.printed = Some([ trained |-> FALSE,
                                       list |-> Some(DEFAULT_PARAMETERS) ])
               /\ ~ opt.constructed
               /\ opt.replayed = 0
          ELSE /\ opt.raised = None
               /\ opt.printed = Some([ trained |-> opt.trained, list |-> opt.result ])

\* compute_optimal_retention has been called on the Optimizer
RetentionCalled == opt.entry = "Optimizer" /\ opt.called = "compute_optimal_retention"

\* a review log of the collection has no duration
NullDuration(review_logs) ==
    \E i \in 1 .. Len(review_logs) : review_logs[i].review_duration = None

\* C19: compute_optimal_retention fails with a ValueError, before it
\* estimates a probability or runs a simulation, when the Optimizer holds
\* fewer than 512 review logs or a log whose review_duration is None
C19_TooFewOrUntimedRejected ==
    ( /\ RetentionCalled
      /\ \/ Len(opt.review_logs) < MinRetentionLogs
         \/ NullDuration(opt.review_logs) )
    => /\ opt.raised = Some("ValueError")
       /\ opt.result = None
       /\ ~ opt.estimated
       /\ opt.simulations = 0

\* 512 review logs or more, of which some have no duration, some have one
\* and some are rated Good, were rejected
C19_Witness ==
    /\ RetentionCalled
    /\ Len(opt.review_logs) >= MinRetentionLogs
    /\ NullDuration(opt.review_logs)
    /\ \E i \in 1 .. Len(opt.review_logs) : opt.review_logs[i].review_duration # None
    /\ \E i \in 1 .. MaxRetentionLogs : opt.review_logs[i].rating = Good
    /\ opt.raised = Some("ValueError")

\* C20: for every collection of 512 review logs or more that all have a
\* duration, compute_optimal_retention returns one of the six candidates,
\* the one of the lowest simulated cost, the smallest of them on a tie.
\* (When no review after the first of its card is rated Hard, Good or Easy
\* the probabilities are quotients by zero.)
C20_CheapestCandidate ==
    ( /\ RetentionCalled
      /\ Len(opt.review_logs) >= MinRetentionLogs
      /\ ~ NullDuration(opt.review_logs) )
    => /\ opt.raised = None
       /\ opt.simulation_costs # None
       /\ \E i \in 1 .. Len(DESIRED_RETENTIONS) :
             /\ opt.result = Some(DESIRED_RETENTIONS[i])
             /\ \A j \in 1 .. Len(DESIRED_RETENTIONS) :
                   /\ Val(opt.simulation_costs)[i] <= Val(opt.simulation_costs)[j]
                   /\ j < i => Val(opt.simulation_costs)[i] < Val(opt.simulation_costs)[j]

\* a card on a ladder was reviewed and a card was returned: the card was in
\* Learning or Relearning, and the ladder is the steps of that state
LadderReview == Returned /\ last.before.state \in {Learning, Relearning}

Ladder ==
    IF last.before.state = Learning THEN scheduler.learning_steps
    ELSE scheduler.relearning_steps

\* the step the card was at, counted from 0
StepBefore == Val(last.before.step)

\* the card came back graduated: in Review, without a step, with an interval
\* of next_interval(stability) days, which the fuzz of a fuzzing scheduler
\* then replaces when it is 2.5 days or more
Graduated ==
    /\ result.state = Review
    /\ result.step = None
    /\ Val(last.base_interval) = StabilityInterval
    /\ Unfuzzed => ResultInterval = StabilityInterval

\* the card came back on its ladder at the step, due the interval after the
\* review time
Stayed(step, interval) ==
    /\ result.state = last.before.state
    /\ result.step = Some(step)
    /\ result.due = Val(last.review_datetime) + interval

\* C21: whenever review_card returns a card that was in Learning or
\* Relearning with a non-empty ladder and was rated Again, the card has step
\* 0, the state it had, and is due steps[0] after the review time, also when
\* its step was at or beyond the length of the ladder
C21_AgainRestartsLadder ==
    (LadderReview /\ Len(Ladder) > 0 /\ last.rating = Again)
    => Stayed(0, Ladder[1])

\* a Relearning card at step 2 of a ladder of one step, rated Again, came
\* back in Relearning at step 0
C21_Witness ==
    /\ LadderReview
    /\ last.before.state = Relearning
    /\ Len(Ladder) = 1
    /\ StepBefore = 2
    /\ last.rating = Again
    /\ Stayed(0, Ladder[1])

\* C22: whenever review_card returns a card that was in Learning or
\* Relearning at a step of the ladder and was rated Hard, state and step are
\* unchanged and the card is due steps[0] * 1.5 after the review time at
\* step 0 of a ladder of one step, (steps[0] + steps[1]) / 2 at step 0 of a
\* longer ladder, and steps[step] at a later step
C22_HardRepeatsStep ==
    (LadderReview /\ StepBefore < Len(Ladder) /\ last.rating = Hard)
    => Stayed(StepBefore,
              IF StepBefore = 0 /\ Len(Ladder) = 1
              THEN TimedeltaScale(Ladder[1], 3, 2)
              ELSE IF StepBefore = 0
              THEN TimedeltaScale(Ladder[1] + Ladder[2], 1, 2)
              ELSE Ladder[StepBefore + 1])

\* a Learning card at step 0 of a ladder of two steps, rated Hard, came back
\* at step 0 due the mean of the two steps later, which is neither step
C22_Witness ==
    /\ LadderReview
    /\ last.before.state = Learning
    /\ Len(Ladder) = 2
    /\ StepBefore = 0
    /\ last.rating = Hard
    /\ result.step = Some(0)
    /\ ResultInterval \notin {Ladder[1], Ladder[2]}
    /\ 2 * ResultInterval = Ladder[1] + Ladder[2]

PastLadder ==
    /\ last.called
    /\ last.before.state \in {Learning, Relearning}
    /\ StepBefore >= Len(Ladder)
    /\ last.rating \in {Hard, Good, Easy}

\* C25: a Learning or Relearning card whose step is at or beyond the length
\* of the scheduler's ladder is graduated to Review with no step on Hard,
\* Good and Easy whenever review_card returns, and the call does not end in
\* an IndexError: no step outside the ladder is read
C25_PastLadderGraduates ==
    PastLadder =>
        /\ last.raised # Some("IndexError")
        /\ Returned => Graduated

\* a Learning card at step 2 of a ladder of two steps, rated Hard, came back
\* in Review
C25_Witness ==
    /\ PastLadder
    /\ Returned
    /\ last.before.state = Learning
    /\ Len(Ladder) = 2
    /\ StepBefore = 2
    /\ last.rating = Hard
    /\ Graduated

\* review_card was called on a card with a stability, a difficulty and a
\* last review, at a time to which the check of review_datetime has no
\* objection
RememberedReview ==
    /\ last.called
    /\ last.raised # Some("ValueError")
    /\ last.before.stability # None
    /\ last.before.difficulty # None
    /\ last.before.last_review # None

\* C26: for a card that has a stability, a difficulty and a last review,
\* review_card in every state applies the short-term update exactly when the
\* whole days from last_review to the review time, rounded down, are fewer
\* than 1, and the long-term update otherwise.  (In Relearning the long-term
\* update is not made: the call raises.)
C26_UpdateByElapsedDays ==
    RememberedReview =>
        /\ Returned
        /\ last.update =
              IF Days(Val(last.review_datetime) - Val(last.before.last_review)) < 1
              THEN "short" ELSE "long"

\* review_card was called, at a time to which the check of review_datetime
\* has no objection, on a card that has neither stability nor difficulty
UnrememberedReview ==
    /\ last.called
    /\ last.raised # Some("ValueError")
    /\ last.before.stability = None
    /\ last.before.difficulty = None

\* parameters[rating - 1], not less than STABILITY_MIN
InitialStabilityOf(rating) ==
    IF scheduler.parameters[rating] < STABILITY_MIN THEN STABILITY_MIN
    ELSE scheduler.parameters[rating]

\* parameters[4] - e ** (parameters[5] * (rating - 1)) + 1, between 1 and 10
InitialDifficultyOf(rating) ==
    LET initial_difficulty ==
            scheduler.parameters[5] - FExp(scheduler.parameters[6] * (rating - 1)) + SCALE
    IN  IF initial_difficulty < 1 * SCALE THEN 1 * SCALE
        ELSE IF initial_difficulty > 10 * SCALE THEN 10 * SCALE
        ELSE initial_difficulty

\* C27: the review of a Learning card whose stability and difficulty are
\* both None returns it with stability parameters[rating - 1], clamped, and
\* the clamped initial difficulty of the rating, whatever the review time
\* and last_review; in no other state are they initialised: the review of
\* such a card in Review or Relearning returns nothing
C27_FirstReviewInitialises ==
    UnrememberedReview =>
        IF last.before.state = Learning
        THEN /\ Returned
             /\ result.stability = Some(InitialStabilityOf(last.rating))
             /\ result.difficulty = Some(InitialDifficultyOf(last.rating))
        ELSE ~ Returned

\* a Learning card with a last review and neither stability nor difficulty
\* was rated Easy a day later under parameters that need the clamp, and came
\* back with the least difficulty
C27_Witness ==
    /\ UnrememberedReview
    /\ last.before.state = Learning
    /\ last.before.last_review # None
    /\ Val(last.review_datetime) >= Val(last.before.last_review) + TicksPerDay
    /\ last.rating = Easy
    /\ scheduler.parameters = ExtremeParameters
    /\ Returned
    /\ result.difficulty = Some(1 * SCALE)
    /\ result.stability = Some(scheduler.parameters[4])

\* review_card was called, at a time to which the check of review_datetime
\* has no objection, on a Learning or Review card that has a stability and
\* a difficulty and no last review
UndatedReview ==
    /\ last.called
    /\ last.raised # Some("ValueError")
    /\ last.before.state \in {Learning, Review}
    /\ last.before.stability # None
    /\ last.before.difficulty # None
    /\ last.before.last_review = None

\* C28: a Learning or Review card with a stability and a difficulty and
\* with last_review None gets the long-term update with retrievability 0,
\* and review_card returns
C28_UndatedLongTerm ==
    UndatedReview =>
        /\ Returned
        /\ last.update = "long"
        /\ result.stability =
              Some(_next_stability(scheduler, Val(last.before.difficulty),
                                   Val(last.before.stability), 0, last.rating))
        /\ result.difficulty =
              Some(_next_difficulty(scheduler, Val(last.before.difficulty), last.rating))

\* a Learning card with stability 3.26, difficulty 4.885 and no last review
\* was rated Good and came back with another stability
C28_Witness ==
    /\ UndatedReview
    /\ last.before.state = Learning
    /\ last.before.stability = Some(3260)
    /\ last.rating = Good
    /\ Returned
    /\ result.stability # last.before.stability
    /\ result.last_review = last.review_datetime

\* the ladder of the state the card was returned in
LadderAfter ==
    IF result.state = Learning THEN scheduler.learning_steps
    ELSE scheduler.relearning_steps

\* the duration the steps give a card returned on a ladder: for Hard at
\* step 0 one and a half times the only step or the mean of the first two,
\* otherwise the step the card is at
StepDuration ==
    IF last.rating = Hard /\ result.step = Some(0)
    THEN IF Len(LadderAfter) = 1 THEN TimedeltaScale(LadderAfter[1], 3, 2)
         ELSE TimedeltaScale(LadderAfter[1] + LadderAfter[2], 1, 2)
    ELSE LadderAfter[Val(result.step) + 1]

\* C29: the fuzz is applied only when enable_fuzzing is true and the
\* resulting state is Review: the interval of a card returned in Learning or
\* Relearning is exactly the duration its steps give, and with
\* enable_fuzzing false the interval of a card returned in Review is exactly
\* next_interval(stability) days
C29_FuzzOnlyInReview ==
    Returned =>
        /\ result.state \in {Learning, Relearning} => ResultInterval = StepDuration
        /\ (~ scheduler.enable_fuzzing /\ result.state = Review)
               => ResultInterval = StabilityInterval

\* under a fuzzing scheduler a card came back in Learning due in exactly
\* three days, the second step, an interval the fuzz changes in Review
C29_Witness ==
    /\ Returned
    /\ scheduler.enable_fuzzing
    /\ result.state = Learning
    /\ ResultInterval = TimedeltaDays(3)
    /\ \E u \in RandomDraws :
          _get_fuzzed_interval(scheduler, ResultInterval, u) # ResultInterval

\* what a card holds besides its due date
SansDue(card) ==
    [ card_id |-> card.card_id, state |-> card.state, step |-> card.step,
      stability |-> card.stability, difficulty |-> card.difficulty,
      last_review |-> card.last_review ]

\* C30: two runs of the same reviews that differ only in enable_fuzzing or in
\* what random() returns end alike after every review, with the same exception
\* or none, and their cards agree on card_id, state, step, stability,
\* difficulty and last_review: they can differ in due only
C30_FuzzTouchesOnlyDue ==
    twin.card # None =>
        /\ twin.raised = last.raised
        /\ SansDue(Val(twin.card)) = SansDue(result)

\* after a second review the two runs, one of them without fuzzing, hold
\* cards that are due on different dates
C30_Witness ==
    /\ twin.card # None
    /\ ~ twin.enable_fuzzing
    /\ Returned
    /\ nrev = 2
    /\ Val(twin.card).due # result.due

\* C31: Learning is only an initial state: in every review the card the
\* caller holds afterwards is in Learning only if the card reviewed was, and
\* is newly in Relearning only if the card reviewed was in Review and the
\* rating was Again; so a card that left Learning never returns to it and a
\* Learning card never moves directly to Relearning
C31_LearningOnlyInitial ==
    [][ /\ heap[cur].state # Learning => heap'[cur'].state # Learning
        /\ (heap[cur].state # Relearning /\ heap'[cur'].state = Relearning)
               => (heap[cur].state = Review /\ last'.rating = Again) ]_vars

\* a card that began in Learning, graduated and lapsed into Relearning has
\* been reviewed once more
C31_Witness ==
    /\ Returned
    /\ nrev = 3
    /\ last.before.state = Relearning
    /\ result.state \in {Review, Relearning}

\* C32: whenever review_card returns a card in Learning or Relearning, the
\* card has a step and 0 <= step < len(steps) for the ladder of that state in
\* the scheduler that made the review, whatever non-negative step the card
\* reviewed was at
C32_StepWithinLadder ==
    (Returned /\ result.state \in {Learning, Relearning}) =>
        /\ result.step # None
        /\ 0 <= Val(result.step)
        /\ Val(result.step) < Len(LadderAfter)

\* a card at a step past the end of its ladder was rated Again and came
\* back on the ladder
C32_Witness ==
    /\ LadderReview
    /\ StepBefore >= Len(Ladder)
    /\ result.state \in {Learning, Relearning}

\* every review so far was rated Good and returned a card
OnlyGood == Returned /\ last.goods = nrev

\* C33: a freshly constructed card reviewed only with Good under a scheduler
\* with n >= 1 learning steps is in Learning at step k after the k-th review
\* for every k < n and in Review with no step from the n-th review on; and a
\* card returned in Learning or Relearning has had fewer consecutive Good
\* reviews than its ladder has steps, so that len(steps) consecutive Good
\* reviews bring every card of a ladder to Review
C33_GoodClimbsToReview ==
    Returned =>
        /\ (OnlyGood /\ Len(scheduler.learning_steps) >= 1) =>
               IF nrev < Len(scheduler.learning_steps)
               THEN result.state = Learning /\ result.step = Some(nrev)
               ELSE result.state = Review /\ result.step = None
        /\ result.state \in {Learning, Relearning} => last.goods < Len(LadderAfter)

\* a fresh card under a scheduler with two learning steps came back in
\* Review from its second Good review
C33_Witness ==
    /\ OnlyGood
    /\ Len(scheduler.learning_steps) = 2
    /\ nrev = 2
    /\ last.before.state = Learning
    /\ last.before.step = Some(1)
    /\ result.state = Review

\* a card that lapsed into Relearning came back in Review from a Good review
C33_WitnessRelearning ==
    /\ Returned
    /\ last.goods = 1
    /\ last.before.state = Relearning
    /\ result.state = Review

\* get_card_retrievability was called on the card, and returned
Probed == opt.entry = "retrievability" /\ opt.value # None

\* C34: get_card_retrievability returns 0 for a card without a last review;
\* for a card with one and a positive stability it returns 1 whenever the
\* whole days elapsed are 0 or fewer, and what it returns does not increase
\* with the whole days elapsed
C34_RetrievabilityDecays ==
    Probed =>
        /\ heap[cur].last_review = None => Val(opt.value) = 0
        /\ heap[cur].last_review # None =>
              /\ Days(Val(opt.elapsed)) <= 0 => Val(opt.value) = SCALE
              /\ opt.before # None => Val(opt.value) <= Val(opt.before)

\* a card that was reviewed had a retrievability of 1 half a day later,
\* and has less two months later than a month later
C34_Witness ==
    /\ Probed
    /\ heap[cur].last_review # None
    /\ opt.k = Len(ElapsedProbes)
    /\ 0 < Val(opt.value)
    /\ Val(opt.value) < Val(opt.before)
    /\ Val(opt.before) < SCALE

\* the review logs of a collection that are of the card, in the order they
\* have in the collection
LogsOfCard(review_logs, card_id) ==
    SelectSeq(review_logs, LAMBDA log : log.card_id = card_id)

\* no two review logs of a card have the same review_datetime
DistinctWithinCards(review_logs) ==
    \A i, j \in 1 .. Len(review_logs) :
        (i # j /\ review_logs[i].card_id = review_logs[j].card_id)
            => review_logs[i].review_datetime # review_logs[j].review_datetime

\* the collection in every order
Reorderings(review_logs) ==
    { [ i \in 1 .. Len(review_logs) |-> review_logs[f[i]] ] :
        f \in { g \in [1 .. Len(review_logs) -> 1 .. Len(review_logs)] :
                   \A i, j \in 1 .. Len(review_logs) : g[i] = g[j] => i = j } }

\* the training data has a group for each card_id of the collection and no
\* other, each group has the data of the logs of its card, as many as there
\* are, and is in ascending order of review_datetime
GroupedAndSorted(review_logs, revlogs_train) ==
    /\ DOMAIN revlogs_train = { review_logs[i].card_id : i \in 1 .. Len(review_logs) }
    /\ \A c \in DOMAIN revlogs_train :
          /\ Len(revlogs_train[c]) = Len(LogsOfCard(review_logs, c))
          /\ \A d \in { Datum(review_logs[i]) : i \in 1 .. Len(review_logs) } :
                Len(SelectSeq(revlogs_train[c], LAMBDA x : x = d))
                    = Len(SelectSeq(LogsOfCard(review_logs, c), LAMBDA log : Datum(log) = d))
          /\ \A i \in 1 .. Len(revlogs_train[c]) - 1 :
                revlogs_train[c][i].review_datetime
                    <= revlogs_train[c][i + 1].review_datetime

\* C36: the training data the constructor builds has a group for each card_id
\* with the data of the logs of the card in ascending review_datetime order;
\* it is the same for every reordering of the review logs when no two logs
\* of a card have the same review_datetime; and the review logs the caller
\* passed are the same after every call on the Optimizer
C36_TrainingDataSorted ==
    /\ [] ( (opt.entry # "none" /\ opt.constructed) =>
               /\ GroupedAndSorted(opt.review_logs, _revlogs_train(Optimizer(opt.review_logs)))
               /\ DistinctWithinCards(opt.review_logs) =>
                      \A reordered \in Reorderings(opt.review_logs) :
                          _revlogs_train(Optimizer(reordered))
                              = _revlogs_train(Optimizer(opt.review_logs)) )
    /\ [][ opt.entry # "none" => opt'.review_logs = opt.review_logs ]_vars

\* an Optimizer was constructed with three review logs of two cards, those
\* of one card later first
C36_Witness ==
    /\ opt.entry = "Optimizer"
    /\ opt.constructed
    /\ Len(opt.review_logs) = 3
    /\ DistinctWithinCards(opt.review_logs)
    /\ opt.review_logs[1].card_id = opt.review_logs[2].card_id
    /\ opt.review_logs[1].review_datetime > opt.review_logs[2].review_datetime
    /\ opt.review_logs[3].card_id # opt.review_logs[1].card_id
    /\ opt.called # "none"

\* a call of compute_optimal_parameters is under way or over
Training == opt.entry = "training"

\* the call went through its five epochs and returned
Trained == Training /\ opt.phase = "done" /\ Len(opt.losses) = num_epochs

\* review i of a history is not the first and is a whole day or more after
\* the review before it
LaterDay(history, i) ==
    /\ i > 1
    /\ Days(history[i].review_datetime - history[i - 1].review_datetime) > 0

C37_StepsPerEpoch ==
    Training =>
        /\ opt.peak <= mini_batch_size
        /\ opt.pending < mini_batch_size
        /\ opt.lr_steps = opt.optimizer_steps
        /\ opt.lr_steps <= opt.T_max
        /\ \A j \in 1 .. Len(opt.steps_per_epoch) :
              opt.steps_per_epoch[j] = Ceil(opt.num_reviews, mini_batch_size)
        /\ Trained =>
              /\ opt.T_max = Ceil(opt.num_reviews, mini_batch_size) * num_epochs
              /\ opt.lr_steps = opt.T_max

\* the call returned after five epochs of two optimizer steps each, the
\* second for one remaining loss
C37_Witness ==
    /\ Trained
    /\ opt.num_reviews = mini_batch_size + 1
    /\ opt.peak = mini_batch_size
    /\ opt.steps_per_epoch = << 2, 2, 2, 2, 2 >>
    /\ opt.lr_steps = 10

\* the call returned after five epochs of one optimizer step each, with
\* nothing left at the end of an epoch
C37_WitnessFullBatch ==
    /\ Trained
    /\ opt.num_reviews = mini_batch_size
    /\ opt.steps_per_epoch = << 1, 1, 1, 1, 1 >>

\* every parameter of the list is within its bounds
WithinBounds(params) ==
    /\ Len(params) = Len(lower_bounds)
    /\ \A i \in 1 .. Len(params) :
          lower_bounds[i] <= params[i] /\ params[i] <= upper_bounds[i]

\* C38: after every optimizer step each of the 21 parameters is within its
\* lower and upper bound, and so is every list compute_optimal_parameters
\* returns, the default one included
C38_ParametersWithinBounds ==
    Training =>
        /\ WithinBounds(opt.params)
        /\ \A j \in 1 .. Len(opt.snapshots) : WithinBounds(opt.snapshots[j])
        /\ opt.result # None => WithinBounds(Val(opt.result))

\* the list returned has a parameter at a bound at which the default
\* parameter is not: the clamp held it there
C38_Witness ==
    /\ Trained
    /\ opt.result # None
    /\ \E i \in 1 .. Len(lower_bounds) :
          /\ Val(opt.result)[i] \in {lower_bounds[i], upper_bounds[i]}
          /\ Val(opt.result)[i] # DEFAULT_PARAMETERS[i]

\* the first epoch with the lowest loss
EarliestLeast(losses) ==
    CHOOSE j \in 1 .. Len(losses) :
        /\ \A other \in 1 .. Len(losses) : losses[j] <= losses[other]
        /\ \A earlier \in 1 .. j - 1 : losses[earlier] > losses[j]

\* C39: when the optimisation runs, compute_optimal_parameters returns the
\* parameters as they were at the end of the epoch of which the loss is the
\* lowest of the five epochs, the earliest such epoch when several have it;
\* after every epoch best_params is the snapshot of that epoch so far
C39_BestEpochReturned ==
    Training =>
        /\ opt.losses # << >> =>
              opt.best_params = Some(opt.snapshots[EarliestLeast(opt.losses)])
        /\ Trained => opt.result = Some(opt.snapshots[EarliestLeast(opt.losses)])

\* the second and the fourth epoch had the lowest loss, the last a higher
\* one, and the parameters of the second were returned, which are no others
C39_Witness ==
    /\ Trained
    /\ opt.losses = << 2, 1, 2, 1, 2 >>
    /\ opt.result = Some(opt.snapshots[2])
    /\ \A j \in {1, 3, 4, 5} : opt.snapshots[j] # opt.snapshots[2]

\* a call of _simulate_cost is under way or over
InSimulation == opt.entry = "simulation"

\* the step is a review of the card simulated
ReviewSimulated == InSimulation /\ opt'.i = opt.i /\ opt'.reviews = opt.reviews + 1

\* C40: in _simulate_cost no review raises, whatever ratings are drawn; the
\* review times of a simulated card strictly increase, each review moving the
\* clock to the new due of the card, a minute or more after the review; a
\* card is reviewed only while the clock is before end_date, and the loop
\* of a card is left, for the next card or for the return, only when the
\* clock has reached end_date
C40_SimulatedReviewsAdvance ==
    /\ [](InSimulation => opt.raised = None)
    /\ [](InSimulation /\ opt.reviewed_at # None =>
             /\ opt.card.last_review = opt.reviewed_at
             /\ Val(opt.reviewed_at) < opt.curr_date)
    /\ [][ReviewSimulated =>
             /\ opt.curr_date < end_date
             /\ opt'.curr_date = opt'.card.due
             /\ opt'.curr_date >= opt.curr_date + TimedeltaMinutes(1)]_vars
    /\ [][InSimulation /\ (opt'.i # opt.i \/ opt'.phase # opt.phase) =>
             opt.curr_date >= end_date]_vars

\* the simulation returned its cost after a card that lapsed was reviewed
\* in Relearning, and its last card was reviewed up to end_date
C40_Witness ==
    /\ InSimulation
    /\ opt.phase = "done"
    /\ opt.result # None
    /\ opt.lapses > 0
    /\ opt.i = SimulatedCards
    /\ opt.reviews > 1
    /\ opt.curr_date >= end_date

====
